---------------------------- MODULE Spec2Model ----------------------------
(***************************************************************************)
(* Verification model of the MongoCollectibles rental core:                *)
(*   - services.AllocationManager   (unit inventory, reserve/release/sweep)*)
(*   - handlers.RentalsHandler      (single-item and cart checkout)        *)
(*   - handlers.PaymentsHandler     (payment redirects / webhooks)         *)
(*   - handlers.OrderHandler, services.OrderService, services.RefundService*)
(*   - data.Repository              (in-memory maps)                       *)
(*                                                                         *)
(* Every AllocationManager method holds am.mu for its whole body, and      *)
(* every Repository method holds r.mu for its whole body, so one method    *)
(* call is one atomic step.  A handler is a sequence of such calls and is  *)
(* modelled as a process whose steps interleave with other requests.       *)
(* Time is counted in reservation periods (one Tick = 15 minutes).         *)
(***************************************************************************)
EXTENDS Integers, Sequences, FiniteSets, TLC

\* ------------------------------------------------------------------ bounds
MaxTime == 3          \* the clock stops advancing here
MaxIds == 4           \* number of fresh ids (uuid.New) handed out
MaxCartLines == 2     \* lines a cart may hold
MaxRentalDays == 30     \* longest rental duration a quote is asked for
MaxQuantity == 2      \* quantity a cart line may reach

\* ------------------------------------------------------- program constants
ReservationTimeout == 1      \* 15 * time.Minute = one clock period
MaxInt32 == 2147483647       \* math.MaxInt32, initial minDistance
MinimumRentalDays == 7
SpecialRateMultiplier == 2

NoTime == -1                 \* ReservedAt == nil
NoId == 0                    \* ReservationID == "" / no id
NoUnit == "none"             \* nil *CollectibleUnit
NoUnitsFound == "no available units found for the selected collectible"

\* --------------------------------------------------------------- fixtures
\* Inventory handed to NewAllocationManager.  The order of the slice is the
\* order the loops of Allocate and ReleaseUnit visit the units in.  Two units
\* of one collectible share a warehouse, as in the repository's own test
\* fixture (U1 and U4 of allocation_manager_test.go).
Inventory == <<"U2", "U1", "U3", "U4">>

Units == {Inventory[k] : k \in 1..Len(Inventory)}

CollectibleOf == [u \in Units |->
    CASE u = "U1" -> "C1" [] u = "U2" -> "C1" [] u = "U3" -> "C1" [] u = "U4" -> "C2"]

WarehouseOf == [u \in Units |->
    CASE u = "U1" -> "W1" [] u = "U2" -> "W1" [] u = "U3" -> "W2" [] u = "U4" -> "W3"]

\* am.warehouses: warehouse id -> Distances (store id -> km).  W3 has no
\* entry for store S2.
Warehouses ==
    [w \in {"W1", "W2", "W3"} |->
        CASE w = "W1" -> [s \in {"S1", "S2"} |-> IF s = "S1" THEN 1 ELSE 3]
          [] w = "W2" -> [s \in {"S1", "S2"} |-> IF s = "S1" THEN 3 ELSE 1]
          [] w = "W3" -> [s \in {"S1"} |-> 2]]

\* repo.collectibles: id -> Size.  "C9" may be named by a request but is not
\* in the repository.
Collectibles == [c \in {"C1", "C2"} |-> IF c = "C1" THEN "S" ELSE "M"]

ReqCollectibles == {"C1", "C2", "C9"}
ReqStores == {"S1", "S2"}

VARIABLES
    inv,          \* am.inventory: unit -> [IsAvailable, ReservedAt, ReservationID]
    now,          \* time.Now(), in periods of 15 minutes
    nextId,       \* next value uuid.New() returns
    holders,      \* unit -> reservation ids Allocate returned it to since it was last free
    ret,          \* return value of the last direct AllocationManager call
    rentals,      \* repo.rentals: rental id -> rental
    carts,        \* repo.carts: cart id -> cart
    cartsByUser,  \* repo.cartsByUser: user -> cart id (pointer to the same cart)
    orders,       \* repo.orders: order id -> order
    refunds,      \* repo.refunds: refund id -> refund
    single,       \* requests running RentalsHandler.Checkout
    checkout,     \* requests running RentalsHandler.CheckoutFromCart
    cancel,       \* requests running OrderHandler.CancelOrder
    cartop,       \* requests running CartHandler.AddToCart
    cleanupJob    \* the goroutine of StartCleanupJob and the context it was given

vars == <<inv, now, nextId, holders, ret, rentals, carts, cartsByUser,
          orders, refunds, single, checkout, cancel, cartop, cleanupJob>>

repoVars == <<rentals, carts, cartsByUser, orders, refunds>>
procVars == <<single, checkout, cancel, cartop>>

\* ------------------------------------------------------ AllocationManager
FreeUnit == [IsAvailable |-> TRUE, ReservedAt |-> NoTime, ReservationID |-> NoId]

\* The same loop with a condition that no reservation ever meets.
ReleaseExpiredNever(i, t) ==
    [u \in Units |->
        IF ~i[u].IsAvailable /\ i[u].ReservedAt # NoTime
           /\ i[u].ReservedAt < NoTime
        THEN FreeUnit
        ELSE i[u]]

\* The same loop releasing a reservation made exactly at the cutoff as well.
ReleaseExpiredAtCutoff(i, t) ==
    [u \in Units |->
        IF ~i[u].IsAvailable /\ i[u].ReservedAt # NoTime
           /\ i[u].ReservedAt <= t - ReservationTimeout
        THEN FreeUnit
        ELSE i[u]]

\* releaseExpiredReservationsUnsafe / the loop of CleanupExpiredReservations:
\* cutoff = now - timeout; a unit is released when ReservedAt.Before(cutoff).
ReleaseExpired(i, t) ==
    [u \in Units |->
        IF ~i[u].IsAvailable /\ i[u].ReservedAt # NoTime
           /\ i[u].ReservedAt < t - ReservationTimeout
        THEN FreeUnit
        ELSE i[u]]

\* The same loop without "Filter 2: Must be available".
RECURSIVE AllocScanNoAvailFilter(_, _, _, _, _)
AllocScanNoAvailFilter(i, c, s, k, best) ==
    IF k > Len(Inventory) THEN best
    ELSE LET u == Inventory[k]
             w == WarehouseOf[u]
         IN IF CollectibleOf[u] # c THEN AllocScanNoAvailFilter(i, c, s, k + 1, best)
            ELSE IF w \notin DOMAIN Warehouses THEN AllocScanNoAvailFilter(i, c, s, k + 1, best)
            ELSE IF s \notin DOMAIN Warehouses[w] THEN AllocScanNoAvailFilter(i, c, s, k + 1, best)
            ELSE IF Warehouses[w][s] < best.minDistance
                 THEN AllocScanNoAvailFilter(i, c, s, k + 1,
                        [bestUnit |-> u, minDistance |-> Warehouses[w][s], found |-> TRUE])
                 ELSE AllocScanNoAvailFilter(i, c, s, k + 1, best)

\* The same loop keeping the last candidate it sees instead of the nearest.
RECURSIVE AllocScanLastCandidate(_, _, _, _, _)
AllocScanLastCandidate(i, c, s, k, best) ==
    IF k > Len(Inventory) THEN best
    ELSE LET u == Inventory[k]
             w == WarehouseOf[u]
         IN IF CollectibleOf[u] # c THEN AllocScanLastCandidate(i, c, s, k + 1, best)
            ELSE IF ~i[u].IsAvailable THEN AllocScanLastCandidate(i, c, s, k + 1, best)
            ELSE IF w \notin DOMAIN Warehouses THEN AllocScanLastCandidate(i, c, s, k + 1, best)
            ELSE IF s \notin DOMAIN Warehouses[w] THEN AllocScanLastCandidate(i, c, s, k + 1, best)
            ELSE AllocScanLastCandidate(i, c, s, k + 1,
                        [bestUnit |-> u, minDistance |-> Warehouses[w][s], found |-> TRUE])

\* The candidate loop of Allocate, visiting am.inventory from position k on.
RECURSIVE AllocScan(_, _, _, _, _)
AllocScan(i, c, s, k, best) ==
    IF k > Len(Inventory) THEN best
    ELSE LET u == Inventory[k]
             w == WarehouseOf[u]
         IN IF CollectibleOf[u] # c THEN AllocScan(i, c, s, k + 1, best)
            ELSE IF ~i[u].IsAvailable THEN AllocScan(i, c, s, k + 1, best)
            ELSE IF w \notin DOMAIN Warehouses THEN AllocScan(i, c, s, k + 1, best)
            ELSE IF s \notin DOMAIN Warehouses[w] THEN AllocScan(i, c, s, k + 1, best)
            ELSE IF Warehouses[w][s] < best.minDistance
                 THEN AllocScan(i, c, s, k + 1,
                        [bestUnit |-> u, minDistance |-> Warehouses[w][s], found |-> TRUE])
                 ELSE AllocScan(i, c, s, k + 1, best)

\* bestUnit, minDistance, found after the loop of Allocate.
AllocSearch(i, c, s) ==
    AllocScan(i, c, s, 1, [bestUnit |-> NoUnit, minDistance |-> MaxInt32, found |-> FALSE])

\* Allocate returning the inventory as it was before the in-line sweep when
\* the search fails.
AllocateErrorUndoesSweep(i, t, c, s, rid) ==
    LET swept == ReleaseExpired(i, t)
        r == AllocSearch(swept, c, s)
    IN IF ~r.found
       THEN [err |-> TRUE, msg |-> NoUnitsFound, unit |-> NoUnit, dist |-> 0, swept |-> i, inv |-> i]
       ELSE [err |-> FALSE, msg |-> "", unit |-> r.bestUnit, dist |-> r.minDistance,
             swept |-> swept,
             inv |-> [swept EXCEPT ![r.bestUnit] =
                        [IsAvailable |-> FALSE, ReservedAt |-> t, ReservationID |-> rid]]]

\* AllocationManager.Allocate(collectibleID, storeID, rentalID) at time t:
\* in-line sweep, search, reservation.  swept is the inventory after the
\* in-line sweep, inv the inventory when the call returns.
Allocate(i, t, c, s, rid) ==
    LET swept == ReleaseExpired(i, t)
        r == AllocSearch(swept, c, s)
    IN IF ~r.found
       THEN [err |-> TRUE, msg |-> NoUnitsFound, unit |-> NoUnit, dist |-> 0, swept |-> swept, inv |-> swept]
       ELSE [err |-> FALSE, msg |-> "", unit |-> r.bestUnit, dist |-> r.minDistance,
             swept |-> swept,
             inv |-> [swept EXCEPT ![r.bestUnit] =
                        [IsAvailable |-> FALSE, ReservedAt |-> t, ReservationID |-> rid]]]

\* The loop of ReleaseUnit from position k on: the first unit of the
\* inventory with this collectible and warehouse that is not available.
RECURSIVE ReleaseScan(_, _, _, _)
ReleaseScan(i, c, w, k) ==
    IF k > Len(Inventory) THEN NoUnit
    ELSE LET u == Inventory[k]
         IN IF CollectibleOf[u] = c /\ WarehouseOf[u] = w /\ ~i[u].IsAvailable
            THEN u
            ELSE ReleaseScan(i, c, w, k + 1)

\* ReleaseUnit reporting success without setting IsAvailable.
ReleaseUnitNoEffect(i, c, w) ==
    LET u == ReleaseScan(i, c, w, 1)
    IN IF u = NoUnit
       THEN [err |-> TRUE, unit |-> NoUnit, inv |-> i]
       ELSE [err |-> FALSE, unit |-> u, inv |-> i]

\* AllocationManager.ReleaseUnit(collectibleID, warehouseID).
ReleaseUnit(i, c, w) ==
    LET u == ReleaseScan(i, c, w, 1)
    IN IF u = NoUnit
       THEN [err |-> TRUE, unit |-> NoUnit, inv |-> i]
       ELSE [err |-> FALSE, unit |-> u, inv |-> [i EXCEPT ![u] = FreeUnit]]

\* The counting loop of GetTotalStock, visiting am.inventory from position k on.
RECURSIVE StockScan(_, _, _)
StockScan(i, c, k) ==
    IF k > Len(Inventory) THEN 0
    ELSE (IF CollectibleOf[Inventory[k]] = c /\ i[Inventory[k]].IsAvailable THEN 1 ELSE 0)
         + StockScan(i, c, k + 1)

\* The stock query that counts the reserved units of the collectible as well.
GetTotalStockCountsReserved(i, c) ==
    Cardinality({k \in 1..Len(Inventory) : CollectibleOf[Inventory[k]] = c})

\* AllocationManager.GetTotalStock(collectibleID).
GetTotalStock(i, c) ==
    StockScan(i, c, 1)

\* The loop of GetETA, visiting am.inventory from position k on.
RECURSIVE ETAScan(_, _, _, _, _)
ETAScan(i, c, s, k, best) ==
    IF k > Len(Inventory) THEN best
    ELSE LET u == Inventory[k]
             w == WarehouseOf[u]
         IN IF CollectibleOf[u] # c \/ ~i[u].IsAvailable THEN ETAScan(i, c, s, k + 1, best)
            ELSE IF w \notin DOMAIN Warehouses THEN ETAScan(i, c, s, k + 1, best)
            ELSE IF s \notin DOMAIN Warehouses[w] THEN ETAScan(i, c, s, k + 1, best)
            ELSE IF Warehouses[w][s] < best.minDistance
                 THEN ETAScan(i, c, s, k + 1,
                              [minDistance |-> Warehouses[w][s], found |-> TRUE])
                 ELSE ETAScan(i, c, s, k + 1, best)

\* The ETA query that takes the reserved units of the collectible into account.
GetETAIgnoresAvailability(i, c, s) ==
    LET r == AllocScanNoAvailFilter(i, c, s, 1,
                 [bestUnit |-> NoUnit, minDistance |-> MaxInt32, found |-> FALSE])
    IN IF ~r.found THEN [err |-> TRUE, dist |-> 0]
       ELSE [err |-> FALSE, dist |-> r.minDistance]

\* AllocationManager.GetETA(collectibleID, storeID).
GetETA(i, c, s) ==
    LET r == ETAScan(i, c, s, 1, [minDistance |-> MaxInt32, found |-> FALSE])
    IN IF ~r.found THEN [err |-> TRUE, dist |-> 0]
       ELSE [err |-> FALSE, dist |-> r.minDistance]

Available(i) == {u \in Units : i[u].IsAvailable}

\* Bookkeeping of who was handed which unit: a unit that is free again has no
\* holder; the unit an Allocate returns gains the caller's reservation id.
HoldersAfter(h, freed, unit, rid) ==
    [u \in Units |->
        (IF freed[u].IsAvailable THEN {} ELSE h[u])
        \cup (IF u = unit THEN {rid} ELSE {})]

\* ------------------------------------------------------------------ pricing
\* Size.GetDailyRate
GetDailyRate(size) ==
    CASE size = "S" -> 1000 [] size = "M" -> 5000 [] size = "L" -> 10000 [] OTHER -> 0

\* The fee calculation that applies the special rate up to and including
\* the minimum duration.
CalculateRentalFeeSpecialAtMinimum(size, duration) ==
    LET isSpecialRate == duration <= MinimumRentalDays
        dailyRate == IF isSpecialRate THEN GetDailyRate(size) * SpecialRateMultiplier
                     ELSE GetDailyRate(size)
    IN [dailyRate |-> dailyRate, totalFee |-> dailyRate * duration,
        isSpecialRate |-> isSpecialRate]

\* PricingService.CalculateRentalFee
CalculateRentalFee(size, duration) ==
    LET isSpecialRate == duration < MinimumRentalDays
        dailyRate == IF isSpecialRate THEN GetDailyRate(size) * SpecialRateMultiplier
                     ELSE GetDailyRate(size)
    IN [dailyRate |-> dailyRate, totalFee |-> dailyRate * duration,
        isSpecialRate |-> isSpecialRate]

\* ---------------------------------------------------------------- initial
NoRet == [op |-> "none"]

\* main: go allocationManager.StartCleanupJob(ctx) with a context that has
\* not been cancelled; the goroutine waits in its select.
JobStarted == [pc |-> "select", done |-> FALSE]

InitAlloc ==
    /\ inv = [u \in Units |-> FreeUnit]
    /\ now = 0
    /\ nextId = 1
    /\ holders = [u \in Units |-> {}]
    /\ ret = NoRet
    /\ cleanupJob = JobStarted

InitRepo ==
    /\ rentals = <<>>
    /\ carts = <<>>
    /\ cartsByUser = <<>>
    /\ orders = <<>>
    /\ refunds = <<>>

\* ----------------------------------------------- clock and the sweeper job
Tick ==
    /\ now < MaxTime
    /\ now' = now + 1
    /\ UNCHANGED <<cleanupJob, inv, nextId, holders, ret, repoVars, procVars>>

\* AllocationManager.CleanupExpiredReservations, run by StartCleanupJob on
\* every tick of its ticker.
CleanupExpiredReservations ==
    /\ cleanupJob.pc = "select"
    /\ inv' = ReleaseExpired(inv, now)
    /\ inv' # inv
    /\ holders' = HoldersAfter(holders, inv', NoUnit, NoId)
    /\ UNCHANGED <<cleanupJob, now, nextId, ret, repoVars, procVars>>

\* cancel(), the function main defers for the context of the cleanup job.
CancelContext ==
    /\ ~cleanupJob.done
    /\ cleanupJob' = [cleanupJob EXCEPT !.done = TRUE]
    /\ UNCHANGED <<inv, now, nextId, holders, ret, repoVars, procVars>>

\* The select of the job's loop never taking the ctx.Done case.
CleanupJobIgnoresDone ==
    /\ cleanupJob.pc = "select"
    /\ cleanupJob.done
    /\ UNCHANGED vars

\* StartCleanupJob, case <-ctx.Done(): the goroutine returns.
CleanupJobStop ==
    /\ cleanupJob.pc = "select"
    /\ cleanupJob.done
    /\ cleanupJob' = [cleanupJob EXCEPT !.pc = "stopped"]
    /\ UNCHANGED <<inv, now, nextId, holders, ret, repoVars, procVars>>

\* ------------------------------------- direct calls on the AllocationManager
CallAllocate(c, s) ==
    /\ nextId <= MaxIds
    /\ LET r == Allocate(inv, now, c, s, nextId)
       IN /\ inv' = r.inv
          /\ holders' = HoldersAfter(holders, r.swept, r.unit, nextId)
          /\ ret' = [op |-> "Allocate", c |-> c, s |-> s, rid |-> nextId,
                     err |-> r.err, msg |-> r.msg, unit |-> r.unit, dist |-> r.dist]
    /\ nextId' = nextId + 1
    /\ UNCHANGED <<cleanupJob, now, repoVars, procVars>>

CallReleaseUnit(c, w) ==
    /\ LET r == ReleaseUnit(inv, c, w)
       IN /\ inv' = r.inv
          /\ holders' = HoldersAfter(holders, r.inv, NoUnit, NoId)
          /\ ret' = [op |-> "ReleaseUnit", c |-> c, w |-> w, err |-> r.err, unit |-> r.unit]
    /\ ret' # ret \/ inv' # inv
    /\ UNCHANGED <<cleanupJob, now, nextId, repoVars, procVars>>

\* A stock query: the inventory is read, nothing is written.
CallGetTotalStock(c) ==
    /\ ret' = [op |-> "GetTotalStock", c |-> c, count |-> GetTotalStock(inv, c)]
    /\ ret' # ret
    /\ UNCHANGED <<cleanupJob, inv, now, nextId, holders, repoVars, procVars>>

\* An ETA query: the inventory is read, nothing is written.
CallGetETA(c, s) ==
    /\ LET r == GetETA(inv, c, s)
       IN ret' = [op |-> "GetETA", c |-> c, s |-> s, err |-> r.err, dist |-> r.dist]
    /\ ret' # ret
    /\ UNCHANGED <<cleanupJob, inv, now, nextId, holders, repoVars, procVars>>

\* ------------------------------------------------------- startup validation
\* The store ids of the configuration, the keys a warehouse's distance map
\* may carry (one of them is not a configured store) and the warehouse nodes
\* main builds.
ConfiguredStores == {"store-a", "store-b", "store-c"}
DistanceKeys == ConfiguredStores \cup {"store-x"}
StartupWarehouses == {"wh-1", "wh-2"}
MinStoresPerWarehouse == 3

\* The validation loop of main over newDistances: keys[w] is the key set of
\* the distance map of warehouse node w.  TRUE when startup goes on, FALSE
\* when log.Fatalf ends the process.
StartupValidation(keys) ==
    \A w \in DOMAIN keys : ~(Cardinality(keys[w]) < MinStoresPerWarehouse)

\* main run on a warehouse configuration.
CallStartup(keys) ==
    /\ ret' = [op |-> "main", keys |-> keys, failed |-> ~StartupValidation(keys)]
    /\ ret' # ret
    /\ UNCHANGED <<cleanupJob, inv, now, nextId, holders, repoVars, procVars>>

\* A quote: PricingService.CalculateRentalFee for a size and a duration.
Sizes == {"S", "M", "L", "XL"}

CallCalculateRentalFee(size, duration) ==
    /\ LET r == CalculateRentalFee(size, duration)
       IN ret' = [op |-> "CalculateRentalFee", size |-> size, duration |-> duration,
                  dailyRate |-> r.dailyRate, totalFee |-> r.totalFee,
                  isSpecialRate |-> r.isSpecialRate]
    /\ ret' # ret
    /\ UNCHANGED <<cleanupJob, inv, now, nextId, holders, repoVars, procVars>>

InitProcsIdle ==
    /\ single = <<>>
    /\ checkout = <<>>
    /\ cancel = <<>>
    /\ cartop = <<>>

InitA == InitAlloc /\ InitRepo /\ InitProcsIdle

NextAlloc ==
    \/ \E c \in ReqCollectibles, s \in ReqStores : CallAllocate(c, s)
    \/ \E c \in DOMAIN Collectibles, w \in DOMAIN Warehouses : CallReleaseUnit(c, w)
    \/ \E c \in DOMAIN Collectibles : CallGetTotalStock(c)
    \/ CleanupExpiredReservations
    \/ Tick

SpecAlloc == InitA /\ [][NextAlloc]_vars

\* Startup on every warehouse configuration over the distance keys.
NextStartup == \E keys \in [StartupWarehouses -> SUBSET DistanceKeys] : CallStartup(keys)

SpecStartup == InitA /\ [][NextStartup]_vars

\* Quotes for every size and every duration from one day on.
NextQuote == \E size \in Sizes, duration \in 1..MaxRentalDays :
                 CallCalculateRentalFee(size, duration)

SpecQuote == InitA /\ [][NextQuote]_vars

\* Stock and ETA queries between allocations and sweeps.
NextQueries ==
    \/ \E c \in DOMAIN Collectibles : CallAllocate(c, "S1")
    \/ \E c \in ReqCollectibles : CallGetTotalStock(c)
    \/ \E c \in ReqCollectibles, s \in ReqStores : CallGetETA(c, s)
    \/ CleanupExpiredReservations
    \/ Tick

SpecQueries == InitA /\ [][NextQueries]_vars

\* Allocate calls that also name a store no warehouse lists.
UnlistedStore == "S9"

NextStores ==
    \/ \E c \in ReqCollectibles, s \in {"S1", UnlistedStore} : CallAllocate(c, s)
    \/ CleanupExpiredReservations
    \/ Tick

SpecStores == InitA /\ [][NextStores]_vars

\* Calls for one store only, with the clock running and the ticker of
\* StartCleanupJob firing: the job's goroutine calls
\* CleanupExpiredReservations on every tick.
NextSweep ==
    \/ \E c \in DOMAIN Collectibles : CallAllocate(c, "S1")
    \/ \E c \in DOMAIN Collectibles, w \in DOMAIN Warehouses : CallReleaseUnit(c, w)
    \/ CleanupExpiredReservations
    \/ Tick

SpecSweepFair ==
    /\ InitA /\ [][NextSweep]_vars
    /\ WF_vars(Tick)
    /\ WF_vars(CleanupExpiredReservations)

\* ======================================================== request handlers
SingleProcs == {"s1"}
CheckoutProcs == {"k1", "k2"}
CancelProcs == {"x1", "x2"}
CartProcs == {"a1"}
GetCartProcs == {"g1"}
EditCartProcs == {"e1"}
Users == {"u1"}
Emails == {"e1"}
RentalDays == 7               \* duration / rental_days sent by the requests

Idle == [pc |-> "idle"]

InitProcs ==
    /\ single = [p \in SingleProcs |-> Idle]
    /\ checkout = [p \in CheckoutProcs |-> Idle]
    /\ cancel = [p \in CancelProcs |-> Idle]
    /\ cartop = [p \in CartProcs \cup GetCartProcs \cup EditCartProcs |-> Idle]

\* m with key k bound to v (Go: m[k] = v).
Put(m, k, v) == [x \in DOMAIN m \cup {k} |-> IF x = k THEN v ELSE m[x]]

\* m without key k (Go: delete(m, k)).
Drop(m, k) == [x \in DOMAIN m \ {k} |-> m[x]]

\* ------------------------------------------- RentalsHandler.Checkout (single)
\* Repository.GetPendingRentalByCustomerAndCollectible: the matching rentals;
\* the map iteration returns any one of them.
PendingRentals(email, c) ==
    {id \in DOMAIN rentals : /\ rentals[id].Email = email
                             /\ rentals[id].CollectibleID = c
                             /\ rentals[id].PaymentStatus = "pending"}

\* Decode the request, idempotency lookup, GetCollectibleByID, uuid.New.
SingleBegin(p, email, c, s) ==
    /\ single[p].pc = "idle"
    /\ IF PendingRentals(email, c) # {}
       THEN /\ \E id \in PendingRentals(email, c) :
                 single' = [single EXCEPT ![p] =
                     [pc |-> "done", code |-> 200, rentalID |-> id, reused |-> TRUE,
                      unit |-> NoUnit, fee |-> rentals[id].TotalFee,
                      payment |-> rentals[id].PaymentID]]
            /\ UNCHANGED nextId
       ELSE IF c \notin DOMAIN Collectibles
       THEN /\ single' = [single EXCEPT ![p] =
                     [pc |-> "done", code |-> 404, rentalID |-> NoId, reused |-> FALSE,
                      unit |-> NoUnit]]
            /\ UNCHANGED nextId
       ELSE /\ nextId <= MaxIds
            /\ single' = [single EXCEPT ![p] =
                     [pc |-> "allocate", email |-> email, c |-> c, s |-> s,
                      rentalID |-> nextId]]
            /\ nextId' = nextId + 1
    /\ UNCHANGED <<cleanupJob, inv, now, holders, ret, repoVars, checkout, cancel, cartop>>

\* h.allocationManager.Allocate(req.CollectibleID, req.StoreID, rentalID)
SingleAllocate(p) ==
    /\ single[p].pc = "allocate"
    /\ LET q == single[p]
           r == Allocate(inv, now, q.c, q.s, q.rentalID)
       IN /\ inv' = r.inv
          /\ holders' = HoldersAfter(holders, r.swept, r.unit, q.rentalID)
          /\ single' = [single EXCEPT ![p] =
                IF r.err
                THEN [pc |-> "done", code |-> 409, rentalID |-> q.rentalID,
                      reused |-> FALSE, unit |-> NoUnit]
                ELSE [pc |-> "pay", email |-> q.email, c |-> q.c, s |-> q.s,
                      rentalID |-> q.rentalID, unit |-> r.unit, eta |-> r.dist]]
    /\ UNCHANGED <<cleanupJob, now, nextId, ret, repoVars, checkout, cancel, cartop>>

\* CreateCheckoutSession returned an error: 500, nothing else is done.
SinglePaymentError(p) ==
    /\ single[p].pc = "pay"
    /\ single' = [single EXCEPT ![p] =
            [pc |-> "done", code |-> 500, rentalID |-> single[p].rentalID,
             reused |-> FALSE, unit |-> single[p].unit]]
    /\ UNCHANGED <<cleanupJob, inv, now, nextId, holders, ret, repoVars, checkout, cancel, cartop>>

\* Repository.CreateRental
CreateRental(rs, id, rental) ==
    IF id \in DOMAIN rs THEN [err |-> TRUE, rentals |-> rs]
    ELSE [err |-> FALSE, rentals |-> Put(rs, id, rental)]

\* CreateCheckoutSession succeeded; the rental is saved with the payment id.
SingleSaveRental(p) ==
    /\ single[p].pc = "pay"
    /\ LET q == single[p]
           fee == CalculateRentalFee(Collectibles[q.c], RentalDays)
           r == CreateRental(rentals, q.rentalID,
                   [CollectibleID |-> q.c, StoreID |-> q.s,
                    WarehouseID |-> WarehouseOf[q.unit], Email |-> q.email,
                    TotalFee |-> fee.totalFee, PaymentStatus |-> "pending",
                    PaymentID |-> q.rentalID, ETA |-> q.eta])
       IN /\ rentals' = r.rentals
          /\ single' = [single EXCEPT ![p] =
                [pc |-> "done", code |-> IF r.err THEN 500 ELSE 200,
                 rentalID |-> q.rentalID, reused |-> FALSE, unit |-> q.unit]]
    /\ UNCHANGED <<cleanupJob, inv, now, nextId, holders, ret, carts, cartsByUser, orders, refunds,
                   checkout, cancel, cartop>>

\* The response has been written; the worker takes the next request.
SingleReturn(p) ==
    /\ single[p].pc = "done"
    /\ single' = [single EXCEPT ![p] = Idle]
    /\ UNCHANGED <<cleanupJob, inv, now, nextId, holders, ret, repoVars, checkout, cancel, cartop>>

SingleStep(p) ==
    \/ \E email \in Emails, c \in ReqCollectibles, s \in ReqStores : SingleBegin(p, email, c, s)
    \/ SingleAllocate(p)
    \/ SinglePaymentError(p)
    \/ SingleSaveRental(p)
    \/ SingleReturn(p)

\* ------------------- RentalsHandler.Checkout, variant of handlers/rentals.go
\* AllocationManager.Allocate(collectibleID, storeID) of
\* services/allocation_manager.go: no in-line sweep, and the reservation id
\* of the unit is left as it was.
AllocateLegacy(i, t, c, s) ==
    LET r == AllocSearch(i, c, s)
    IN IF ~r.found
       THEN [err |-> TRUE, unit |-> NoUnit, dist |-> 0, inv |-> i]
       ELSE [err |-> FALSE, unit |-> r.bestUnit, dist |-> r.minDistance,
             inv |-> [i EXCEPT ![r.bestUnit].IsAvailable = FALSE,
                               ![r.bestUnit].ReservedAt = t]]

\* AllocationManager.ReleaseUnit(collectibleID, warehouseID) of
\* services/allocation_manager.go: the unit becomes available, its
\* ReservedAt and ReservationID are left as they were.
ReleaseUnitLegacy(i, c, w) ==
    LET u == ReleaseScan(i, c, w, 1)
    IN IF u = NoUnit
       THEN [err |-> TRUE, unit |-> NoUnit, inv |-> i]
       ELSE [err |-> FALSE, unit |-> u, inv |-> [i EXCEPT ![u].IsAvailable = TRUE]]

\* Direct calls on the AllocationManager of services/allocation_manager.go.
CallAllocateLegacy(c, s) ==
    /\ LET r == AllocateLegacy(inv, now, c, s)
       IN /\ inv' = r.inv
          /\ ret' = [op |-> "Allocate", c |-> c, s |-> s, err |-> r.err,
                     unit |-> r.unit, dist |-> r.dist]
    /\ ret' # ret \/ inv' # inv
    /\ UNCHANGED <<cleanupJob, now, nextId, holders, repoVars, procVars>>

CallReleaseUnitLegacy(c, w) ==
    /\ LET r == ReleaseUnitLegacy(inv, c, w)
       IN /\ inv' = r.inv
          /\ ret' = [op |-> "ReleaseUnit", c |-> c, w |-> w, err |-> r.err, unit |-> r.unit]
    /\ ret' # ret \/ inv' # inv
    /\ UNCHANGED <<cleanupJob, now, nextId, holders, repoVars, procVars>>

\* Decode the request and GetCollectibleByID.
LegacyBegin(p, email, c, s) ==
    /\ single[p].pc = "idle"
    /\ single' = [single EXCEPT ![p] =
          IF c \notin DOMAIN Collectibles
          THEN [pc |-> "done", code |-> 404, rentalID |-> NoId, reused |-> FALSE,
                unit |-> NoUnit]
          ELSE [pc |-> "legacy-allocate", email |-> email, c |-> c, s |-> s]]
    /\ UNCHANGED <<cleanupJob, inv, now, nextId, holders, ret, repoVars, checkout, cancel, cartop>>

\* h.allocationManager.Allocate(req.CollectibleID, req.StoreID)
LegacyAllocate(p) ==
    /\ single[p].pc = "legacy-allocate"
    /\ LET q == single[p]
           r == AllocateLegacy(inv, now, q.c, q.s)
       IN /\ inv' = r.inv
          /\ single' = [single EXCEPT ![p] =
                IF r.err
                THEN [pc |-> "done", code |-> 409, rentalID |-> NoId,
                      reused |-> FALSE, unit |-> NoUnit]
                ELSE [pc |-> "legacy-lookup", email |-> q.email, c |-> q.c, s |-> q.s,
                      unit |-> r.unit, eta |-> r.dist]]
    /\ UNCHANGED <<cleanupJob, now, nextId, holders, ret, repoVars, checkout, cancel, cartop>>

\* The idempotency loop over GetRentalsByCustomerAndCollectible, which comes
\* after the allocation: a pending rental is returned as it is; otherwise
\* uuid.New makes the rental id.
LegacyLookup(p) ==
    /\ single[p].pc = "legacy-lookup"
    /\ LET q == single[p]
       IN IF PendingRentals(q.email, q.c) # {}
          THEN /\ \E id \in PendingRentals(q.email, q.c) :
                    single' = [single EXCEPT ![p] =
                        [pc |-> "done", code |-> 200, rentalID |-> id, reused |-> TRUE,
                         unit |-> q.unit, fee |-> rentals[id].TotalFee,
                         payment |-> rentals[id].PaymentID]]
               /\ UNCHANGED nextId
          ELSE /\ nextId <= MaxIds
               /\ single' = [single EXCEPT ![p] =
                     [pc |-> "pay", email |-> q.email, c |-> q.c, s |-> q.s,
                      rentalID |-> nextId, unit |-> q.unit, eta |-> q.eta]]
               /\ nextId' = nextId + 1
    /\ UNCHANGED <<cleanupJob, inv, now, holders, ret, repoVars, checkout, cancel, cartop>>

\* The rest of the handler (payment session, CreateRental, response) is the
\* same in both variants.
LegacyStep(p, cs, ss) ==
    \/ \E email \in Emails, c \in cs, s \in ss : LegacyBegin(p, email, c, s)
    \/ LegacyAllocate(p)
    \/ LegacyLookup(p)
    \/ SinglePaymentError(p)
    \/ SingleSaveRental(p)
    \/ SingleReturn(p)

\* ------------------------------------------------------- PaymentsHandler
\* PaymentSuccess: GET /payment/success?rental_id=...
PaymentSuccess(id) ==
    /\ id \in DOMAIN rentals
    /\ rentals' = [rentals EXCEPT ![id].PaymentStatus = "completed"]
    /\ rentals' # rentals
    /\ UNCHANGED <<cleanupJob, inv, now, nextId, holders, ret, carts, cartsByUser, orders, refunds,
                   procVars>>

\* WebhookPayMongo with checkout_session.payment.paid: handlePaymentSuccess
\* marks the first rental whose PaymentID matches.
\* PaymentsHandler.handleSessionExpiry for the session id of a
\* checkout_session.expired event: the pending rental with that payment id
\* has ReleaseUnit called for its collectible and warehouse (an error is
\* logged) and becomes failed; without such a rental nothing is done.  ret
\* records the delivery.
HandleSessionExpiry(pid) ==
    /\ LET found == {id \in DOMAIN rentals : /\ rentals[id].PaymentID = pid
                                             /\ rentals[id].PaymentStatus = "pending"}
       IN IF found = {}
          THEN /\ ret' = [op |-> "session.expired", id |-> pid, rental |-> NoId,
                          unit |-> NoUnit]
               /\ UNCHANGED <<inv, holders, rentals>>
          ELSE \E id \in found :
                  LET r == ReleaseUnit(inv, rentals[id].CollectibleID,
                                       rentals[id].WarehouseID)
                  IN /\ inv' = r.inv
                     /\ holders' = HoldersAfter(holders, r.inv, NoUnit, NoId)
                     /\ rentals' = [rentals EXCEPT ![id].PaymentStatus = "failed"]
                     /\ ret' = [op |-> "session.expired", id |-> pid, rental |-> id,
                                unit |-> r.unit]
    /\ ret' # ret \/ rentals' # rentals
    /\ UNCHANGED <<cleanupJob, now, nextId, carts, cartsByUser, orders, refunds, procVars>>

HandlePaymentSuccess(pid) ==
    /\ \E id \in DOMAIN rentals :
          /\ rentals[id].PaymentID = pid
          /\ rentals' = [rentals EXCEPT ![id].PaymentStatus = "completed"]
    /\ rentals' # rentals
    /\ UNCHANGED <<cleanupJob, inv, now, nextId, holders, ret, carts, cartsByUser, orders, refunds,
                   procVars>>

\* ------------------------------------------------- CartHandler.AddToCart
\* Repository.GetActiveCartByUserID: the cart id, or NoId for "no active cart".
GetActiveCartByUserID(user) ==
    IF user \in DOMAIN cartsByUser /\ carts[cartsByUser[user]].Status = "ACTIVE"
    THEN cartsByUser[user]
    ELSE NoId

\* Repository.UpdateCart(cart) for the cart object with this id: the object is
\* already the one stored in r.carts; the user's pointer is set when the cart
\* is active and deleted otherwise.
UpdateCart(byUser, cs, id) ==
    IF cs[id].Status = "ACTIVE"
    THEN Put(byUser, cs[id].UserID, id)
    ELSE Drop(byUser, cs[id].UserID)

\* The position of the line AddCartItem merges into, 0 when there is none.
RECURSIVE MergeIndex(_, _, _)
MergeIndex(items, item, k) ==
    IF k > Len(items) THEN 0
    ELSE IF items[k].CollectibleID = item.CollectibleID /\ items[k].StoreID = item.StoreID
         THEN k
         ELSE MergeIndex(items, item, k + 1)

\* Repository.AddCartItem on the item list of the cart.
AddCartItem(items, item) ==
    LET k == MergeIndex(items, item, 1)
    IN IF k = 0 THEN Append(items, item)
       ELSE [items EXCEPT ![k].Quantity = @ + item.Quantity,
                          ![k].RentalDays = item.RentalDays]

\* Token check, request validation and GetActiveCartByUserID.
CartGet(p, user, c, s) ==
    /\ cartop[p].pc = "idle"
    /\ LET id == GetActiveCartByUserID(user)
           item == [CollectibleID |-> c, StoreID |-> s, RentalDays |-> RentalDays,
                    Quantity |-> 1]
       IN cartop' = [cartop EXCEPT ![p] =
             [pc |-> IF id = NoId THEN "create" ELSE "add", user |-> user,
              cart |-> id, item |-> item]]
    /\ UNCHANGED <<cleanupJob, inv, now, nextId, holders, ret, repoVars, single, checkout, cancel>>

\* No active cart was found: a new cart, Repository.CreateCart.
CartCreate(p) ==
    /\ cartop[p].pc = "create"
    /\ nextId <= MaxIds
    /\ carts' = Put(carts, nextId,
                    [UserID |-> cartop[p].user, Status |-> "ACTIVE", Items |-> <<>>])
    /\ cartsByUser' = Put(cartsByUser, cartop[p].user, nextId)
    /\ nextId' = nextId + 1
    /\ cartop' = [cartop EXCEPT ![p].pc = "add", ![p].cart = nextId]
    /\ UNCHANGED <<cleanupJob, inv, now, holders, ret, rentals, orders, refunds, single, checkout, cancel>>

\* The AddCartItem step that also reserves a unit for the line it adds.
CartAddItemReserves(p) ==
    /\ cartop[p].pc = "add"
    /\ LET id == cartop[p].cart
           items == AddCartItem(carts[id].Items, cartop[p].item)
           r == Allocate(inv, now, cartop[p].item.CollectibleID, cartop[p].item.StoreID, id)
       IN /\ Len(items) <= MaxCartLines
          /\ \A k \in 1..Len(items) : items[k].Quantity <= MaxQuantity
          /\ carts' = [carts EXCEPT ![id].Items = items]
          /\ inv' = r.inv
    /\ cartop' = [cartop EXCEPT ![p].pc = "update"]
    /\ UNCHANGED <<cleanupJob, now, nextId, holders, ret, rentals, cartsByUser, orders, refunds,
                   single, checkout, cancel>>

\* h.repo.AddCartItem(cart.ID, item)
CartAddItem(p) ==
    /\ cartop[p].pc = "add"
    /\ LET id == cartop[p].cart
           items == AddCartItem(carts[id].Items, cartop[p].item)
       IN /\ Len(items) <= MaxCartLines
          /\ \A k \in 1..Len(items) : items[k].Quantity <= MaxQuantity
          /\ carts' = [carts EXCEPT ![id].Items = items]
    /\ cartop' = [cartop EXCEPT ![p].pc = "update"]
    /\ UNCHANGED <<cleanupJob, inv, now, nextId, holders, ret, rentals, cartsByUser, orders, refunds,
                   single, checkout, cancel>>

\* h.repo.UpdateCart(cart) and the response.
CartUpdate(p) ==
    /\ cartop[p].pc = "update"
    /\ cartsByUser' = UpdateCart(cartsByUser, carts, cartop[p].cart)
    /\ cartop' = [cartop EXCEPT ![p] = Idle]
    /\ UNCHANGED <<cleanupJob, inv, now, nextId, holders, ret, rentals, carts, orders, refunds,
                   single, checkout, cancel>>

AddToCart(p, cs, ss) ==
    \/ \E user \in Users, c \in cs, s \in ss : CartGet(p, user, c, s)
    \/ CartCreate(p)
    \/ CartAddItem(p)
    \/ CartUpdate(p)

\* ---------------------------------------------------- CartHandler.GetCart
\* Token check and GetActiveCartByUserID.
GetCartLookup(p, user) ==
    /\ cartop[p].pc = "idle"
    /\ LET id == GetActiveCartByUserID(user)
       IN cartop' = [cartop EXCEPT ![p] =
             [pc |-> IF id = NoId THEN "create" ELSE "respond", user |-> user,
              cart |-> id]]
    /\ UNCHANGED <<cleanupJob, inv, now, nextId, holders, ret, repoVars, single, checkout, cancel>>

\* No active cart was found: a new cart, Repository.CreateCart.
GetCartCreate(p) ==
    /\ cartop[p].pc = "create"
    /\ nextId <= MaxIds
    /\ carts' = Put(carts, nextId,
                    [UserID |-> cartop[p].user, Status |-> "ACTIVE", Items |-> <<>>])
    /\ cartsByUser' = Put(cartsByUser, cartop[p].user, nextId)
    /\ nextId' = nextId + 1
    /\ cartop' = [cartop EXCEPT ![p].pc = "respond", ![p].cart = nextId]
    /\ UNCHANGED <<cleanupJob, inv, now, holders, ret, rentals, orders, refunds, single, checkout, cancel>>

\* The cart is written to the response.
GetCartRespond(p) ==
    /\ cartop[p].pc = "respond"
    /\ cartop' = [cartop EXCEPT ![p] = Idle]
    /\ UNCHANGED <<cleanupJob, inv, now, nextId, holders, ret, repoVars, single, checkout, cancel>>

GetCart(p) ==
    \/ \E user \in Users : GetCartLookup(p, user)
    \/ GetCartCreate(p)
    \/ GetCartRespond(p)

\* ------------- CartHandler.UpdateCartItem, RemoveFromCart and ClearCart
\* The position of the first line of the collectible, 0 when there is none.
RECURSIVE ItemIndex(_, _, _)
ItemIndex(items, c, k) ==
    IF k > Len(items) THEN 0
    ELSE IF items[k].CollectibleID = c THEN k
    ELSE ItemIndex(items, c, k + 1)

\* Repository.RemoveCartItem on the item list: the list without its line k.
RemoveAt(items, k) ==
    [j \in 1..(Len(items) - 1) |-> IF j < k THEN items[j] ELSE items[j + 1]]

\* Token check, mux.Vars, request body and GetActiveCartByUserID; 404 when
\* the user has no active cart.  op is the handler serving the request.
EditLookup(p, op, user, c, quantity) ==
    /\ cartop[p].pc = "idle"
    /\ LET id == GetActiveCartByUserID(user)
       IN cartop' = [cartop EXCEPT ![p] =
             [pc |-> IF id = NoId THEN "respond" ELSE op, user |-> user, cart |-> id,
              c |-> c, quantity |-> quantity]]
    /\ UNCHANGED <<cleanupJob, inv, now, nextId, holders, ret, repoVars, single, checkout, cancel>>

\* UpdateCartItem: the loop over cart.Items that builds updatedItem; 404
\* when the cart has no line of the collectible.
UpdateFind(p) ==
    /\ cartop[p].pc = "find"
    /\ LET q == cartop[p]
           k == ItemIndex(carts[q.cart].Items, q.c, 1)
       IN cartop' = [cartop EXCEPT ![p] =
             IF k = 0 THEN [pc |-> "respond", user |-> q.user, cart |-> q.cart]
             ELSE [pc |-> "store", user |-> q.user, cart |-> q.cart, c |-> q.c,
                   item |-> [CollectibleID |-> q.c,
                             StoreID |-> carts[q.cart].Items[k].StoreID,
                             RentalDays |-> RentalDays, Quantity |-> q.quantity]]]
    /\ UNCHANGED <<cleanupJob, inv, now, nextId, holders, ret, repoVars, single, checkout, cancel>>

\* UpdateCartItem: h.repo.UpdateCartItem(cart.ID, collectibleID, updatedItem);
\* its error is ignored.
UpdateStore(p) ==
    /\ cartop[p].pc = "store"
    /\ LET q == cartop[p]
           k == ItemIndex(carts[q.cart].Items, q.c, 1)
       IN carts' = IF k = 0 THEN carts
                   ELSE [carts EXCEPT ![q.cart].Items[k] = q.item]
    /\ cartop' = [cartop EXCEPT ![p].pc = "update"]
    /\ UNCHANGED <<cleanupJob, inv, now, nextId, holders, ret, rentals, cartsByUser, orders, refunds,
                   single, checkout, cancel>>

\* RemoveFromCart: h.repo.RemoveCartItem(cart.ID, collectibleID); 404 when
\* the cart has no line of the collectible.
RemoveItem(p) ==
    /\ cartop[p].pc = "remove"
    /\ LET q == cartop[p]
           k == ItemIndex(carts[q.cart].Items, q.c, 1)
       IN IF k = 0
          THEN /\ cartop' = [cartop EXCEPT ![p].pc = "respond"]
               /\ UNCHANGED carts
          ELSE /\ carts' = [carts EXCEPT ![q.cart].Items = RemoveAt(@, k)]
               /\ cartop' = [cartop EXCEPT ![p].pc = "update"]
    /\ UNCHANGED <<cleanupJob, inv, now, nextId, holders, ret, rentals, cartsByUser, orders, refunds,
                   single, checkout, cancel>>

\* ClearCart: cart.Items = []models.CartItem{}.
ClearItems(p) ==
    /\ cartop[p].pc = "clear"
    /\ carts' = [carts EXCEPT ![cartop[p].cart].Items = <<>>]
    /\ cartop' = [cartop EXCEPT ![p].pc = "update"]
    /\ UNCHANGED <<cleanupJob, inv, now, nextId, holders, ret, rentals, cartsByUser, orders, refunds,
                   single, checkout, cancel>>

\* The three handlers; each ends with h.repo.UpdateCart(cart) and the
\* response, or with the 404 response.
EditCart(p, cs) ==
    \/ \E op \in {"find", "remove", "clear"}, user \in Users, c \in cs,
          quantity \in 1..MaxQuantity : EditLookup(p, op, user, c, quantity)
    \/ UpdateFind(p)
    \/ UpdateStore(p)
    \/ RemoveItem(p)
    \/ ClearItems(p)
    \/ CartUpdate(p)
    \/ GetCartRespond(p)

\* --------------------------------------- RentalsHandler.CheckoutFromCart
\* Steps 1-4: token, GetActiveCartByUserID, empty-cart check, uuid.New.
\* before is the set of Available units when the call starts.
CheckoutBegin(p, user) ==
    /\ checkout[p].pc = "idle"
    /\ LET id == GetActiveCartByUserID(user)
           q0 == [pc |-> "done", code |-> 0, user |-> user, cart |-> id, items |-> <<>>,
                  orderID |-> NoId, idx |-> 1, orderItems |-> <<>>, failed |-> <<>>,
                  total |-> 0, rel |-> 1, before |-> Available(inv)]
       IN IF id = NoId
          THEN /\ checkout' = [checkout EXCEPT ![p] = [q0 EXCEPT !.code = 404]]
               /\ UNCHANGED nextId
          ELSE IF Len(carts[id].Items) = 0
          THEN /\ checkout' = [checkout EXCEPT ![p] = [q0 EXCEPT !.code = 400]]
               /\ UNCHANGED nextId
          ELSE /\ nextId <= MaxIds
               /\ checkout' = [checkout EXCEPT ![p] =
                     [q0 EXCEPT !.pc = "items", !.items = carts[id].Items,
                                !.orderID = nextId]]
               /\ nextId' = nextId + 1
    /\ UNCHANGED <<cleanupJob, inv, now, holders, ret, repoVars, single, cancel, cartop>>

\* Where the handler goes once the loop over the cart items has ended.
AfterLoop(q) ==
    IF Len(q.failed) > 0
    THEN IF Len(q.orderItems) = 0
         THEN [q EXCEPT !.pc = "done", !.code = 409]
         ELSE [q EXCEPT !.pc = "release", !.code = 409]
    ELSE [q EXCEPT !.pc = "pay"]

\* The loop iteration that leaves the loop at the first item that fails.
CheckoutItemStopsAtFailure(p) ==
    /\ checkout[p].pc = "items"
    /\ LET q == checkout[p]
           it == q.items[q.idx]
           c == it.CollectibleID
           last == q.idx = Len(q.items)
           step(q1) == IF last THEN AfterLoop(q1) ELSE q1
       IN IF c \notin DOMAIN Collectibles
          THEN /\ checkout' = [checkout EXCEPT ![p] =
                     AfterLoop([q EXCEPT !.failed = Append(@, c), !.idx = @ + 1])]
               /\ UNCHANGED <<inv, holders>>
          ELSE LET r == Allocate(inv, now, c, it.StoreID, q.orderID)
                   fee == CalculateRentalFee(Collectibles[c], it.RentalDays)
               IN /\ inv' = r.inv
                  /\ holders' = HoldersAfter(holders, r.swept, r.unit, q.orderID)
                  /\ checkout' = [checkout EXCEPT ![p] =
                        IF r.err
                        THEN AfterLoop([q EXCEPT !.failed = Append(@, c), !.idx = @ + 1])
                        ELSE step([q EXCEPT
                               !.orderItems = Append(@,
                                   [CollectibleID |-> c, UnitID |-> r.unit,
                                    WarehouseID |-> WarehouseOf[r.unit],
                                    RentalDays |-> it.RentalDays, ETADays |-> r.dist,
                                    Price |-> fee.totalFee]),
                               !.total = @ + fee.totalFee,
                               !.idx = @ + 1])]
    /\ UNCHANGED <<cleanupJob, now, nextId, ret, repoVars, single, cancel, cartop>>

\* The loop iteration under an allocation lock that a checkout keeps while
\* its payment session is being created: Allocate waits for that checkout.
CheckoutItemWaitsForGateway(p) ==
    /\ \A q \in CheckoutProcs \ {p} : checkout[q].pc # "pay"
    /\ checkout[p].pc = "items"
    /\ LET q == checkout[p]
           it == q.items[q.idx]
           c == it.CollectibleID
           last == q.idx = Len(q.items)
           step(q1) == IF last THEN AfterLoop(q1) ELSE q1
       IN IF c \notin DOMAIN Collectibles
          THEN /\ checkout' = [checkout EXCEPT ![p] =
                     step([q EXCEPT !.failed = Append(@, c), !.idx = @ + 1])]
               /\ UNCHANGED <<inv, holders>>
          ELSE LET r == Allocate(inv, now, c, it.StoreID, q.orderID)
                   fee == CalculateRentalFee(Collectibles[c], it.RentalDays)
               IN /\ inv' = r.inv
                  /\ holders' = HoldersAfter(holders, r.swept, r.unit, q.orderID)
                  /\ checkout' = [checkout EXCEPT ![p] =
                        IF r.err
                        THEN step([q EXCEPT !.failed = Append(@, c), !.idx = @ + 1])
                        ELSE step([q EXCEPT
                               !.orderItems = Append(@,
                                   [CollectibleID |-> c, UnitID |-> r.unit,
                                    WarehouseID |-> WarehouseOf[r.unit],
                                    RentalDays |-> it.RentalDays, ETADays |-> r.dist,
                                    Price |-> fee.totalFee]),
                               !.total = @ + fee.totalFee,
                               !.idx = @ + 1])]
    /\ UNCHANGED <<cleanupJob, now, nextId, ret, repoVars, single, cancel, cartop>>

\* The loop iteration that reserves a second unit for a line whose quantity
\* is more than one.
CheckoutItemReservesQuantity(p) ==
    /\ checkout[p].pc = "items"
    /\ LET q == checkout[p]
           it == q.items[q.idx]
           c == it.CollectibleID
           last == q.idx = Len(q.items)
           step(q1) == IF last THEN AfterLoop(q1) ELSE q1
       IN IF c \notin DOMAIN Collectibles
          THEN /\ checkout' = [checkout EXCEPT ![p] =
                     step([q EXCEPT !.failed = Append(@, c), !.idx = @ + 1])]
               /\ UNCHANGED <<inv, holders>>
          ELSE LET r == Allocate(inv, now, c, it.StoreID, q.orderID)
                   r2 == IF it.Quantity > 1 /\ ~r.err
                         THEN Allocate(r.inv, now, c, it.StoreID, q.orderID)
                         ELSE r
                   fee == CalculateRentalFee(Collectibles[c], it.RentalDays)
               IN /\ inv' = r2.inv
                  /\ holders' = HoldersAfter(HoldersAfter(holders, r.swept, r.unit, q.orderID),
                                             r2.swept, r2.unit, q.orderID)
                  /\ checkout' = [checkout EXCEPT ![p] =
                        IF r.err
                        THEN step([q EXCEPT !.failed = Append(@, c), !.idx = @ + 1])
                        ELSE step([q EXCEPT
                               !.orderItems = Append(@,
                                   [CollectibleID |-> c, UnitID |-> r.unit,
                                    WarehouseID |-> WarehouseOf[r.unit],
                                    RentalDays |-> it.RentalDays, ETADays |-> r.dist,
                                    Price |-> fee.totalFee]),
                               !.total = @ + fee.totalFee,
                               !.idx = @ + 1])]
    /\ UNCHANGED <<cleanupJob, now, nextId, ret, repoVars, single, cancel, cartop>>

\* Step 5, one iteration: GetCollectibleByID, Allocate, CalculateRentalFee.
CheckoutItem(p) ==
    /\ checkout[p].pc = "items"
    /\ LET q == checkout[p]
           it == q.items[q.idx]
           c == it.CollectibleID
           last == q.idx = Len(q.items)
           step(q1) == IF last THEN AfterLoop(q1) ELSE q1
       IN IF c \notin DOMAIN Collectibles
          THEN /\ checkout' = [checkout EXCEPT ![p] =
                     step([q EXCEPT !.failed = Append(@, c), !.idx = @ + 1])]
               /\ UNCHANGED <<inv, holders>>
          ELSE LET r == Allocate(inv, now, c, it.StoreID, q.orderID)
                   fee == CalculateRentalFee(Collectibles[c], it.RentalDays)
               IN /\ inv' = r.inv
                  /\ holders' = HoldersAfter(holders, r.swept, r.unit, q.orderID)
                  /\ checkout' = [checkout EXCEPT ![p] =
                        IF r.err
                        THEN step([q EXCEPT !.failed = Append(@, c), !.idx = @ + 1])
                        ELSE step([q EXCEPT
                               !.orderItems = Append(@,
                                   [CollectibleID |-> c, UnitID |-> r.unit,
                                    WarehouseID |-> WarehouseOf[r.unit],
                                    RentalDays |-> it.RentalDays, ETADays |-> r.dist,
                                    Price |-> fee.totalFee]),
                               !.total = @ + fee.totalFee,
                               !.idx = @ + 1])]
    /\ UNCHANGED <<cleanupJob, now, nextId, ret, repoVars, single, cancel, cartop>>

\* One iteration of a compensation loop:
\* h.allocationManager.ReleaseUnit(item.CollectibleID, item.WarehouseID);
\* after the last one the error response is written.
CheckoutRelease(p) ==
    /\ checkout[p].pc = "release"
    /\ LET q == checkout[p]
           it == q.orderItems[q.rel]
           r == ReleaseUnit(inv, it.CollectibleID, it.WarehouseID)
       IN /\ inv' = r.inv
          /\ holders' = HoldersAfter(holders, r.inv, NoUnit, NoId)
          /\ checkout' = [checkout EXCEPT ![p] =
                [q EXCEPT !.rel = @ + 1,
                          !.pc = IF q.rel = Len(q.orderItems) THEN "done" ELSE "release"]]
    /\ UNCHANGED <<cleanupJob, now, nextId, ret, repoVars, single, cancel, cartop>>

\* Step 7 failed: CreateCheckoutSession returned an error.
CheckoutPaymentError(p) ==
    /\ checkout[p].pc = "pay"
    /\ checkout' = [checkout EXCEPT ![p].pc = "release", ![p].code = 500]
    /\ UNCHANGED <<cleanupJob, inv, now, nextId, holders, ret, repoVars, single, cancel, cartop>>

\* Repository.CreateOrder (never fails).
CreateOrder(os, id, order) == Put(os, id, order)

\* The order creation that stores the order without its items.
CheckoutCreateOrderDropsItems(p) ==
    /\ checkout[p].pc = "pay"
    /\ LET q == checkout[p]
       IN orders' = CreateOrder(orders, q.orderID,
                       [UserID |-> q.user, Status |-> "PENDING_PAYMENT",
                        TotalAmount |-> q.total, Items |-> <<>>,
                        PaymentID |-> q.orderID])
    /\ checkout' = [checkout EXCEPT ![p].pc = "status"]
    /\ UNCHANGED <<cleanupJob, inv, now, nextId, holders, ret, rentals, carts, cartsByUser, refunds,
                   single, cancel, cartop>>

\* Step 7 succeeded and step 8: the order is created with PENDING_PAYMENT.
CheckoutCreateOrder(p) ==
    /\ checkout[p].pc = "pay"
    /\ LET q == checkout[p]
       IN orders' = CreateOrder(orders, q.orderID,
                       [UserID |-> q.user, Status |-> "PENDING_PAYMENT",
                        TotalAmount |-> q.total, Items |-> q.orderItems,
                        PaymentID |-> q.orderID])
    /\ checkout' = [checkout EXCEPT ![p].pc = "status"]
    /\ UNCHANGED <<cleanupJob, inv, now, nextId, holders, ret, rentals, carts, cartsByUser, refunds,
                   single, cancel, cartop>>

\* Step 9, first statement: cart.Status = models.CartCheckedOut, written to
\* the cart object the repository maps point to.
CheckoutSetStatus(p) ==
    /\ checkout[p].pc = "status"
    /\ carts' = [carts EXCEPT ![checkout[p].cart].Status = "CHECKED_OUT"]
    /\ checkout' = [checkout EXCEPT ![p].pc = "update"]
    /\ UNCHANGED <<cleanupJob, inv, now, nextId, holders, ret, rentals, cartsByUser, orders, refunds,
                   single, cancel, cartop>>

\* Step 9, h.repo.UpdateCart(cart), and step 10, the response.
CheckoutUpdateCart(p) ==
    /\ checkout[p].pc = "update"
    /\ cartsByUser' = UpdateCart(cartsByUser, carts, checkout[p].cart)
    /\ checkout' = [checkout EXCEPT ![p].pc = "done", ![p].code = 200]
    /\ UNCHANGED <<cleanupJob, inv, now, nextId, holders, ret, rentals, carts, orders, refunds,
                   single, cancel, cartop>>

\* The response has been written; the worker takes the next request.
CheckoutReturn(p) ==
    /\ checkout[p].pc = "done"
    /\ checkout' = [checkout EXCEPT ![p] = Idle]
    /\ UNCHANGED <<cleanupJob, inv, now, nextId, holders, ret, repoVars, single, cancel, cartop>>

CheckoutFromCart(p) ==
    \/ \E user \in Users : CheckoutBegin(p, user)
    \/ CheckoutItem(p)
    \/ CheckoutRelease(p)
    \/ CheckoutPaymentError(p)
    \/ CheckoutCreateOrder(p)
    \/ CheckoutSetStatus(p)
    \/ CheckoutUpdateCart(p)
    \/ CheckoutReturn(p)

\* ------------------------------------------------ OrderHandler.CancelOrder
CancelUsers == {"u1", "u2"}

\* The eligibility check giving a full refund to an order in transit.
EligibilityFullInTransit(status, total) ==
    CASE status = "PENDING_PAYMENT" ->
            [CanCancel |-> TRUE, RefundAmount |-> 0, RefundReason |-> "not paid"]
      [] status \in {"PAID", "ALLOCATED", "IN_TRANSIT"} ->
            [CanCancel |-> TRUE, RefundAmount |-> total, RefundReason |-> "full"]
      [] OTHER ->
            [CanCancel |-> FALSE, RefundAmount |-> 0, RefundReason |-> "invalid"]

\* OrderService.CheckCancellationEligibility on an order with the given
\* status and total amount.
CheckCancellationEligibility(status, total) ==
    CASE status = "PENDING_PAYMENT" ->
            [CanCancel |-> TRUE, RefundAmount |-> 0, RefundReason |-> "not paid"]
      [] status \in {"PAID", "ALLOCATED"} ->
            [CanCancel |-> TRUE, RefundAmount |-> total, RefundReason |-> "full"]
      [] status = "IN_TRANSIT" ->
            [CanCancel |-> TRUE, RefundAmount |-> total \div 2, RefundReason |-> "partial"]
      [] status \in {"READY_FOR_PICKUP", "COMPLETED"} ->
            [CanCancel |-> FALSE, RefundAmount |-> 0, RefundReason |-> "delivered"]
      [] status \in {"CANCELLED", "REFUNDED"} ->
            [CanCancel |-> FALSE, RefundAmount |-> 0, RefundReason |-> "already cancelled"]
      [] OTHER ->
            [CanCancel |-> FALSE, RefundAmount |-> 0, RefundReason |-> "invalid"]

\* Repository.GetRefundByOrderID: the refunds recorded for the order; the map
\* iteration returns any one of them.
GetRefundByOrderID(o) == {id \in DOMAIN refunds : refunds[id].OrderID = o}

\* Token, mux.Vars, GetOrderByID and the ownership check.  The handler keeps
\* the pointer the repository returned, so every later read and write of
\* order.Status goes to the stored order.
CancelBegin(p, user, o) ==
    /\ cancel[p].pc = "idle"
    /\ LET q0 == [pc |-> "done", code |-> 0, user |-> user, order |-> o,
                  result |-> CheckCancellationEligibility("", 0), idx |-> 1,
                  refund |-> NoId, status |-> ""]
       IN cancel' = [cancel EXCEPT ![p] =
             IF o \notin DOMAIN orders THEN [q0 EXCEPT !.code = 404]
             ELSE IF orders[o].UserID # user THEN [q0 EXCEPT !.code = 403]
             ELSE [q0 EXCEPT !.pc = "check"]]
    /\ UNCHANGED <<cleanupJob, inv, now, nextId, holders, ret, repoVars, single, checkout, cartop>>

\* OrderService.CancelOrder step 1: the eligibility check; 400 when refused.
CancelCheck(p) ==
    /\ cancel[p].pc = "check"
    /\ LET q == cancel[p]
           result == CheckCancellationEligibility(orders[q.order].Status,
                                                  orders[q.order].TotalAmount)
       IN cancel' = [cancel EXCEPT ![p] =
             IF result.CanCancel
             THEN [q EXCEPT !.pc = "shipped", !.result = result]
             ELSE [q EXCEPT !.pc = "done", !.code = 400, !.result = result,
                            !.status = orders[q.order].Status]]
    /\ UNCHANGED <<cleanupJob, inv, now, nextId, holders, ret, repoVars, single, checkout, cartop>>

\* The release condition that also holds for an order in transit.
CancelShippedReleasesInTransit(p) ==
    /\ cancel[p].pc = "shipped"
    /\ LET q == cancel[p]
       IN cancel' = [cancel EXCEPT ![p].pc =
             IF /\ orders[q.order].Status \in {"PAID", "ALLOCATED", "IN_TRANSIT"}
                /\ Len(orders[q.order].Items) > 0
             THEN "release" ELSE "cancelled"]
    /\ UNCHANGED <<cleanupJob, inv, now, nextId, holders, ret, repoVars, single, checkout, cartop>>

\* OrderService.CancelOrder step 2, the condition: order.Status is read again
\* to decide whether the units are released.
CancelShipped(p) ==
    /\ cancel[p].pc = "shipped"
    /\ LET q == cancel[p]
       IN cancel' = [cancel EXCEPT ![p].pc =
             IF /\ orders[q.order].Status \in {"PAID", "ALLOCATED"}
                /\ Len(orders[q.order].Items) > 0
             THEN "release" ELSE "cancelled"]
    /\ UNCHANGED <<cleanupJob, inv, now, nextId, holders, ret, repoVars, single, checkout, cartop>>

\* OrderService.CancelOrder step 2, one iteration of the loop; a failed
\* release is logged and the loop goes on.
CancelRelease(p) ==
    /\ cancel[p].pc = "release"
    /\ LET q == cancel[p]
           it == orders[q.order].Items[q.idx]
           r == ReleaseUnit(inv, it.CollectibleID, it.WarehouseID)
       IN /\ inv' = r.inv
          /\ holders' = HoldersAfter(holders, r.inv, NoUnit, NoId)
          /\ cancel' = [cancel EXCEPT ![p] =
                [q EXCEPT !.idx = @ + 1,
                          !.pc = IF q.idx = Len(orders[q.order].Items)
                                 THEN "cancelled" ELSE "release"]]
    /\ UNCHANGED <<cleanupJob, now, nextId, ret, repoVars, single, checkout, cartop>>

\* OrderService.CancelOrder step 3, order.Status = models.OrderCancelled, and
\* the handler's h.repo.UpdateOrder(order), which stores the same pointer.
CancelSetCancelled(p) ==
    /\ cancel[p].pc = "cancelled"
    /\ orders' = [orders EXCEPT ![cancel[p].order].Status = "CANCELLED"]
    /\ cancel' = [cancel EXCEPT ![p].pc =
          IF cancel[p].result.RefundAmount > 0 THEN "refund" ELSE "respond"]
    /\ UNCHANGED <<cleanupJob, inv, now, nextId, holders, ret, rentals, carts, cartsByUser, refunds,
                   single, checkout, cartop>>

\* The handler going on to order.Status = OrderRefunded although no refund
\* was found or created.
RefundLookupSkipsCreate(p) ==
    /\ cancel[p].pc = "refund"
    /\ cancel' = [cancel EXCEPT ![p].pc = "refunded"]
    /\ UNCHANGED <<cleanupJob, inv, now, nextId, holders, ret, repoVars, single, checkout, cartop>>

\* RefundService.CreateRefund steps 1-2: the idempotency lookup.
RefundLookup(p) ==
    /\ cancel[p].pc = "refund"
    /\ LET found == GetRefundByOrderID(cancel[p].order)
       IN IF found = {}
          THEN cancel' = [cancel EXCEPT ![p].pc = "create"]
          ELSE \E id \in found :
                  cancel' = [cancel EXCEPT ![p].pc = "refunded", ![p].refund = id]
    /\ UNCHANGED <<cleanupJob, inv, now, nextId, holders, ret, repoVars, single, checkout, cartop>>

\* RefundService.CreateRefund steps 3-4: a refund with a fresh id is stored
\* with status PENDING (Repository.CreateRefund).
RefundCreate(p) ==
    /\ cancel[p].pc = "create"
    /\ nextId <= MaxIds
    /\ refunds' = Put(refunds, nextId,
                      [OrderID |-> cancel[p].order,
                       UserID |-> orders[cancel[p].order].UserID,
                       Amount |-> cancel[p].result.RefundAmount,
                       Status |-> "PENDING"])
    /\ nextId' = nextId + 1
    /\ cancel' = [cancel EXCEPT ![p].pc = "process", ![p].refund = nextId]
    /\ UNCHANGED <<cleanupJob, inv, now, holders, ret, rentals, carts, cartsByUser, orders,
                   single, checkout, cartop>>

\* RefundService.ProcessRefund: the mock provider always succeeds.
ProcessRefund(p) ==
    /\ cancel[p].pc = "process"
    /\ refunds' = [refunds EXCEPT ![cancel[p].refund].Status = "PROCESSED"]
    /\ cancel' = [cancel EXCEPT ![p].pc = "refunded"]
    /\ UNCHANGED <<cleanupJob, inv, now, nextId, holders, ret, rentals, carts, cartsByUser, orders,
                   single, checkout, cartop>>

\* order.Status = models.OrderRefunded and h.repo.UpdateOrder(order).
CancelSetRefunded(p) ==
    /\ cancel[p].pc = "refunded"
    /\ orders' = [orders EXCEPT ![cancel[p].order].Status = "REFUNDED"]
    /\ cancel' = [cancel EXCEPT ![p].pc = "respond"]
    /\ UNCHANGED <<cleanupJob, inv, now, nextId, holders, ret, rentals, carts, cartsByUser, refunds,
                   single, checkout, cartop>>

\* The response: order.Status as it is now, the refund amount and the refund.
CancelRespond(p) ==
    /\ cancel[p].pc = "respond"
    /\ cancel' = [cancel EXCEPT ![p].pc = "done", ![p].code = 200,
                                ![p].status = orders[cancel[p].order].Status]
    /\ UNCHANGED <<cleanupJob, inv, now, nextId, holders, ret, repoVars, single, checkout, cartop>>

\* The response has been written; the worker takes the next request.
CancelReturn(p) ==
    /\ cancel[p].pc = "done"
    /\ cancel' = [cancel EXCEPT ![p] = Idle]
    /\ UNCHANGED <<cleanupJob, inv, now, nextId, holders, ret, repoVars, single, checkout, cartop>>

CancelOrder(p, os) ==
    \/ \E user \in CancelUsers, o \in os : CancelBegin(p, user, o)
    \/ CancelCheck(p)
    \/ CancelShipped(p)
    \/ CancelRelease(p)
    \/ CancelSetCancelled(p)
    \/ RefundLookup(p)
    \/ RefundCreate(p)
    \/ ProcessRefund(p)
    \/ CancelSetRefunded(p)
    \/ CancelRespond(p)
    \/ CancelReturn(p)

\* Repository.UpdateOrderStatus: the status is overwritten without a check.
UpdateOrderStatus(o, status) ==
    /\ o \in DOMAIN orders
    /\ orders' = [orders EXCEPT ![o].Status = status]
    /\ UNCHANGED <<cleanupJob, inv, now, nextId, holders, ret, rentals, carts, cartsByUser, refunds,
                   procVars>>

\* The status the payment and fulfilment flow gives an order next.
FulfilmentNext(status) ==
    CASE status = "PENDING_PAYMENT" -> {"PAID"}
      [] status = "PAID" -> {"ALLOCATED"}
      [] status = "ALLOCATED" -> {"IN_TRANSIT"}
      [] status = "IN_TRANSIT" -> {"READY_FOR_PICKUP"}
      [] status = "READY_FOR_PICKUP" -> {"COMPLETED"}
      [] OTHER -> {}

\* No request other than p is in progress.
Alone(p) ==
    /\ \A q \in CheckoutProcs \ {p} : checkout[q].pc = "idle"
    /\ \A q \in (CartProcs \cup GetCartProcs \cup EditCartProcs) \ {p} : cartop[q].pc = "idle"
    /\ \A q \in SingleProcs \ {p} : single[q].pc = "idle"
    /\ \A q \in CancelProcs \ {p} : cancel[q].pc = "idle"

\* Every cancellation request other than p has been answered.
Answered(p) == \A q \in CancelProcs \ {p} : cancel[q].pc \in {"idle", "done"}

InitS == InitAlloc /\ InitRepo /\ InitProcs

NextSingle ==
    \/ \E p \in SingleProcs : SingleStep(p)
    \/ \E id \in 1..MaxIds : PaymentSuccess(id)
    \/ \E id \in 1..MaxIds : HandlePaymentSuccess(id)
    \/ CleanupExpiredReservations
    \/ Tick

SpecSingle == InitS /\ [][NextSingle]_vars

\* Single-item checkouts and checkout_session.expired events.
NextExpiry ==
    \/ \E p \in SingleProcs : SingleStep(p)
    \/ \E pid \in 1..MaxIds : HandleSessionExpiry(pid)

SpecExpiry == InitS /\ [][NextExpiry]_vars

\* Single-item checkouts with the payment events of their sessions: the
\* checkout_session.payment.paid and checkout_session.expired webhooks and
\* the success redirect, delivered for the sessions of stored rentals while
\* no checkout request is in progress.
NextPayments ==
    \/ \E p \in SingleProcs :
          \/ \E email \in Emails, c \in {"C1"}, s \in ReqStores : SingleBegin(p, email, c, s)
          \/ SingleAllocate(p)
          \/ SinglePaymentError(p)
          \/ SingleSaveRental(p)
          \/ SingleReturn(p)
    \/ \E pid \in DOMAIN rentals : Alone("") /\ HandleSessionExpiry(pid)
    \/ \E pid \in DOMAIN rentals : Alone("") /\ HandlePaymentSuccess(pid)
    \/ \E id \in DOMAIN rentals : Alone("") /\ PaymentSuccess(id)

SpecPayments == InitS /\ [][NextPayments]_vars

\* Single-item checkouts and the cleanup job while main cancels the job's
\* context.  Once the context is cancelled ctx.Done() is ready at every
\* select of the job, and select picks among its ready cases at random, so
\* the Done case is taken; a goroutine waiting for the allocation mutex gets
\* it, since every holder unlocks on return.
NextShutdown ==
    \/ \E p \in SingleProcs :
          \/ \E email \in Emails, s \in ReqStores : SingleBegin(p, email, "C1", s)
          \/ SingleAllocate(p)
          \/ SinglePaymentError(p)
          \/ SingleSaveRental(p)
          \/ SingleReturn(p)
    \/ CleanupExpiredReservations
    \/ Tick
    \/ CancelContext
    \/ CleanupJobStop

SpecShutdownFair ==
    /\ InitS /\ [][NextShutdown]_vars
    /\ WF_vars(CleanupJobStop)
    /\ \A p \in SingleProcs : WF_vars(SingleAllocate(p))

\* Requests served concurrently by the cart and checkout handlers.
NextCart ==
    \/ \E p \in CartProcs : AddToCart(p, {"C1", "C9"}, {"S1"})
    \/ \E p \in CheckoutProcs : CheckoutFromCart(p)

SpecCart == InitS /\ [][NextCart]_vars

\* Cart requests of one user served concurrently with a checkout.
NextCarts ==
    \/ \E p \in CartProcs : AddToCart(p, {"C1"}, {"S1"})
    \/ \E p \in GetCartProcs : GetCart(p)
    \/ CheckoutFromCart("k1")

SpecCarts == InitS /\ [][NextCarts]_vars

\* Every cart operation and the checkout of one user, served one at a time.
NextCartOps ==
    \/ \E p \in CartProcs : Alone(p) /\ AddToCart(p, {"C1", "C2"}, {"S1"})
    \/ \E p \in GetCartProcs : Alone(p) /\ GetCart(p)
    \/ \E p \in EditCartProcs : Alone(p) /\ EditCart(p, {"C1", "C2"})
    \/ Alone("k1") /\ CheckoutFromCart("k1")

SpecCartOps == InitS /\ [][NextCartOps]_vars

\* Two checkouts of one user's cart served concurrently, with stock queries;
\* the cart is filled while no other request is in progress.
NextGateway ==
    \/ \E p \in CartProcs : Alone(p) /\ AddToCart(p, {"C1"}, {"S1"})
    \/ \E p \in CheckoutProcs : CheckoutFromCart(p)
    \/ CallGetTotalStock("C1")

SpecGateway == InitS /\ [][NextGateway]_vars

\* The same requests served one at a time: a request starts only when no
\* other request is in progress.
NextCartSeq ==
    \/ \E p \in CartProcs : Alone(p) /\ AddToCart(p, ReqCollectibles, ReqStores)
    \/ \E p \in CheckoutProcs : Alone(p) /\ CheckoutFromCart(p)

SpecCartSeq == InitS /\ [][NextCartSeq]_vars

\* The repository and inventory after user u1 has put one collectible into
\* the cart (AddToCart) and checked the cart out (CheckoutFromCart).
InitOrder ==
    /\ \E c \in DOMAIN Collectibles, s \in ReqStores :
          LET r == Allocate([u \in Units |-> FreeUnit], 0, c, s, 2)
              fee == CalculateRentalFee(Collectibles[c], RentalDays)
          IN /\ ~r.err
             /\ inv = r.inv
             /\ holders = [u \in Units |-> IF u = r.unit THEN {2} ELSE {}]
             /\ carts = Put(<<>>, 1,
                   [UserID |-> "u1", Status |-> "CHECKED_OUT",
                    Items |-> <<[CollectibleID |-> c, StoreID |-> s,
                                 RentalDays |-> RentalDays, Quantity |-> 1]>>])
             /\ orders = CreateOrder(<<>>, 2,
                   [UserID |-> "u1", Status |-> "PENDING_PAYMENT",
                    TotalAmount |-> fee.totalFee,
                    Items |-> <<[CollectibleID |-> c, UnitID |-> r.unit,
                                 WarehouseID |-> WarehouseOf[r.unit],
                                 RentalDays |-> RentalDays, ETADays |-> r.dist,
                                 Price |-> fee.totalFee]>>,
                    PaymentID |-> 2])
    /\ now = 0
    /\ nextId = 3
    /\ ret = NoRet
    /\ cleanupJob = JobStarted
    /\ rentals = <<>>
    /\ cartsByUser = <<>>
    /\ refunds = <<>>
    /\ InitProcs

\* Cancellation requests served concurrently while the order moves on.
NextOrder ==
    \/ \E p \in CancelProcs : CancelOrder(p, DOMAIN orders)
    \/ \E o \in DOMAIN orders :
          \E status \in FulfilmentNext(orders[o].Status) : UpdateOrderStatus(o, status)

SpecOrder == InitOrder /\ [][NextOrder]_vars

\* Cancellation requests served one at a time: a request takes a step only
\* when every other one has been answered.
NextOrderSeq ==
    \/ \E p \in CancelProcs : Answered(p) /\ CancelOrder(p, DOMAIN orders \cup {NoId})
    \/ \E o \in DOMAIN orders :
          \E status \in FulfilmentNext(orders[o].Status) : UpdateOrderStatus(o, status)

SpecOrderSeq == InitOrder /\ [][NextOrderSeq]_vars

\* The single-item checkout of handlers/rentals.go with the sweeper job.
NextLegacy ==
    \/ \E p \in SingleProcs : LegacyStep(p, {"C1", "C9"}, ReqStores)
    \/ CleanupExpiredReservations
    \/ Tick

SpecLegacy == InitS /\ [][NextLegacy]_vars

\* Direct calls on the AllocationManager of services/allocation_manager.go
\* with its sweeper job.
NextLegacyAlloc ==
    \/ \E c \in DOMAIN Collectibles : CallAllocateLegacy(c, "S1")
    \/ \E c \in DOMAIN Collectibles, w \in DOMAIN Warehouses : CallReleaseUnitLegacy(c, w)
    \/ CleanupExpiredReservations
    \/ Tick

SpecLegacyAlloc == InitA /\ [][NextLegacyAlloc]_vars

\* ================================================================== claims

\* C1: under every interleaving of Allocate calls, a unit that has not been
\* released or expired in between is held by at most one caller, a held unit
\* is not Available, and for every collectible the number of callers holding
\* a unit never exceeds the number of its units that left the Available set
\* (so the available stock never goes below zero).
C1_NoDoubleBooking ==
    /\ \A u \in Units :
          /\ Cardinality(holders[u]) <= 1
          /\ holders[u] # {} => ~inv[u].IsAvailable
    /\ \A c \in DOMAIN Collectibles :
          LET mine == {u \in Units : CollectibleOf[u] = c}
          IN /\ GetTotalStock(inv, c) >= 0
             /\ Cardinality(UNION {holders[u] : u \in mine})
                  <= Cardinality(mine) - GetTotalStock(inv, c)

\* Every unit of C1 is held by exactly one caller and a further Allocate for
\* C1 was refused.
C1_Witness ==
    /\ ret.op = "Allocate" /\ ret.err /\ ret.c = "C1"
    /\ \A u \in Units : CollectibleOf[u] = "C1" => Cardinality(holders[u]) = 1

\* The units Allocate may choose from for (c, s): of the collectible,
\* Available when the search runs, in a warehouse that lists the store.
Candidates(i, c, s) ==
    {u \in Units : /\ CollectibleOf[u] = c
                   /\ i[u].IsAvailable
                   /\ WarehouseOf[u] \in DOMAIN Warehouses
                   /\ s \in DOMAIN Warehouses[WarehouseOf[u]]}

\* C9: a successful Allocate(c, s) returns a unit of collectible c that was
\* Available when the search ran, whose warehouse lists store s, at minimal
\* distance among all such units; the returned distance is that minimum and
\* the unit is not Available afterwards.
C9_AllocateNearest ==
    [][\A c \in ReqCollectibles, s \in ReqStores :
          (CallAllocate(c, s) /\ ~ret'.err) =>
             LET cands == Candidates(ReleaseExpired(inv, now), c, s)
                 u == ret'.unit
             IN /\ u \in cands
                /\ \A v \in cands :
                      Warehouses[WarehouseOf[u]][s] <= Warehouses[WarehouseOf[v]][s]
                /\ ret'.dist = Warehouses[WarehouseOf[u]][s]
                /\ ~inv'[u].IsAvailable]_vars

\* Allocate for store S2 returned U3 (distance 1) although U2 and U1
\* (distance 3) come first in the inventory and U1 is still Available.
C9_Witness ==
    /\ ret.op = "Allocate" /\ ~ret.err /\ ret.s = "S2"
    /\ ret.unit = "U3" /\ ret.dist = 1
    /\ inv["U1"].IsAvailable

\* The unit u is held under a rental whose payment has succeeded.
PaidHeld(u) ==
    /\ ~inv[u].IsAvailable
    /\ inv[u].ReservationID \in DOMAIN rentals
    /\ rentals[inv[u].ReservationID].PaymentStatus = "completed"

\* A step that runs the expiry sweep: the periodic job, or the in-line sweep
\* at the start of an Allocate.
SweepStep ==
    \/ CleanupExpiredReservations
    \/ \E p \in SingleProcs : SingleAllocate(p)

\* C2: once the payment of a rental has succeeded, no expiry sweep (periodic
\* or in-line) returns the unit held under that rental to Available.
C2_PaidUnitNeverSwept ==
    [][SweepStep => \A u \in Units : PaidHeld(u) => ~inv'[u].IsAvailable]_vars

\* The step in which the checkout request p writes its response.
CheckoutReturns(p) == checkout[p].pc # "done" /\ checkout'[p].pc = "done"

\* C3: when CheckoutFromCart returns an error, the set of Available units is
\* the set that was Available when the call started.
C3_CompensationCompleteness ==
    [][\A p \in CheckoutProcs :
          (CheckoutReturns(p) /\ checkout'[p].code # 200) =>
              Available(inv') = checkout'[p].before]_vars

\* C4: when CheckoutFromCart returns its error after the payment session
\* could not be created, every unit the checkout allocated is Available again
\* and no order with the checkout's order id exists.
C4_ReleasedBeforeError ==
    [][\A p \in CheckoutProcs :
          (CheckoutReturns(p) /\ checkout'[p].code = 500) =>
              /\ \A k \in 1..Len(checkout'[p].orderItems) :
                    inv'[checkout'[p].orderItems[k].UnitID].IsAvailable
              /\ checkout'[p].orderID \notin DOMAIN orders']_vars

\* The checkout request p has created its order and marked its cart.
CheckoutSucceeded(p) ==
    /\ checkout[p].pc = "done" /\ checkout[p].code = 200
    /\ checkout[p].orderID \in DOMAIN orders

\* C5: of two checkouts running against the same Active cart, at most one
\* creates an order and takes the cart to CheckedOut.
C5_AtMostOneCheckout ==
    \A p, q \in CheckoutProcs :
        (p # q /\ CheckoutSucceeded(p) /\ CheckoutSucceeded(q)) =>
            checkout[p].cart # checkout[q].cart

\* C10: when the single-item checkout returns its error after the unit was
\* allocated, the unit is no longer reserved under the rental id and no
\* rental with that id is stored.
C10_SingleCompensation ==
    \A p \in SingleProcs :
        (single[p].pc = "done" /\ single[p].code = 500 /\ single[p].unit # NoUnit) =>
            /\ inv[single[p].unit].ReservationID # single[p].rentalID
            /\ single[p].rentalID \notin DOMAIN rentals

\* C6: at most one refund record exists per order id, and all cancellation
\* requests that got a refund for the same order got the same refund id and
\* amount, whatever the interleaving of the CreateRefund calls.
C6_RefundIdempotency ==
    /\ \A r1, r2 \in DOMAIN refunds :
          refunds[r1].OrderID = refunds[r2].OrderID => r1 = r2
    /\ \A p, q \in CancelProcs :
          (/\ cancel[p].pc = "done" /\ cancel[q].pc = "done"
           /\ cancel[p].order = cancel[q].order
           /\ cancel[p].refund # NoId /\ cancel[q].refund # NoId) =>
              /\ cancel[p].refund = cancel[q].refund
              /\ refunds[cancel[p].refund].Amount = refunds[cancel[q].refund].Amount

\* The order status transitions the order life cycle allows.
AllowedTransitions ==
    {<<"PENDING_PAYMENT", "PAID">>, <<"PENDING_PAYMENT", "CANCELLED">>,
     <<"PAID", "ALLOCATED">>, <<"PAID", "CANCELLED">>,
     <<"ALLOCATED", "IN_TRANSIT">>, <<"ALLOCATED", "CANCELLED">>,
     <<"IN_TRANSIT", "READY_FOR_PICKUP">>, <<"IN_TRANSIT", "CANCELLED">>,
     <<"READY_FOR_PICKUP", "COMPLETED">>,
     <<"CANCELLED", "REFUNDED">>}

\* C7: every change of an order's status, under every interleaving of the
\* requests, is one of the allowed transitions.
C7_TransitionLegality ==
    [][\A o \in DOMAIN orders :
          orders'[o].Status # orders[o].Status =>
              <<orders[o].Status, orders'[o].Status>> \in AllowedTransitions]_vars

\* The cancellation request p has returned success with a full refund, which
\* is what a Paid order gets.
CancelledWithFullRefund(p) ==
    /\ cancel[p].pc = "done" /\ cancel[p].code = 200
    /\ cancel[p].refund # NoId
    /\ refunds[cancel[p].refund].Amount = orders[cancel[p].order].TotalAmount

\* C8: when a Paid order is cancelled twice in succession, both requests
\* yield the same refund id with the amount equal to the order total, and the
\* order ends up Refunded.
C8_CancelTwice ==
    \A p, q \in CancelProcs :
        (/\ p # q
         /\ CancelledWithFullRefund(p)
         /\ cancel[q].pc = "done" /\ cancel[q].order = cancel[p].order
         /\ cancel[q].user = cancel[p].user) =>
            /\ cancel[q].code = 200
            /\ cancel[q].refund = cancel[p].refund
            /\ cancel[q].result.RefundAmount = orders[cancel[p].order].TotalAmount
            /\ orders[cancel[p].order].Status = "REFUNDED"

\* The step in which the single-item checkout p answers with an existing
\* pending rental.
ReusesRental(p) ==
    single[p].pc # "done" /\ single'[p].pc = "done" /\ single'[p].reused

\* C11: a single-item checkout that finds a pending rental for its customer
\* and collectible returns that rental's id, fee and payment reference as
\* stored, creates no rental and has reserved no unit.
C11_IdempotentCheckout ==
    [][\A p \in SingleProcs :
          ReusesRental(p) =>
              LET q == single'[p]
              IN /\ q.rentalID \in DOMAIN rentals
                 /\ rentals[q.rentalID].PaymentStatus = "pending"
                 /\ q.fee = rentals[q.rentalID].TotalFee
                 /\ q.payment = rentals[q.rentalID].PaymentID
                 /\ rentals' = rentals
                 /\ q.unit = NoUnit]_vars

\* The unit u is reserved under id r, early enough for the reservation to
\* run out before the clock stops.
ReservedInTime(u, r) ==
    /\ ~inv[u].IsAvailable
    /\ inv[u].ReservationID = r
    /\ inv[u].ReservedAt # NoTime
    /\ inv[u].ReservedAt + ReservationTimeout < MaxTime

\* C12: a reservation made by Allocate ends once the reservation timeout has
\* elapsed, by the periodic sweeper alone (no Allocate or ReleaseUnit call is
\* required to happen): the unit is Available again, or an Allocate that
\* found it Available has reserved it under another id.
C12_SweeperFreesReservation ==
    \A u \in Units, r \in 1..MaxIds :
        ReservedInTime(u, r) ~> (inv[u].IsAvailable \/ inv[u].ReservationID # r)

\* The last call on the manager was the Allocate that reserved a unit, and
\* the unit is Available again: the sweeper job has released it.
C12_Witness ==
    /\ ret.op = "Allocate" /\ ~ret.err
    /\ inv[ret.unit].IsAvailable

\* C13: a GetTotalStock call counts every unit whose reservation is older
\* than the reservation timeout as available.
C13_StockCountsExpired ==
    [][\A c \in DOMAIN Collectibles :
          CallGetTotalStock(c) =>
              ret'.count = GetTotalStock(ReleaseExpired(inv, now), c)]_vars

\* C14 as stated: an Allocate call that returns the no-capacity error leaves
\* the state of every unit unchanged.
C14_FailedAllocateNoChange ==
    [][\A c \in ReqCollectibles, s \in ReqStores :
          (CallAllocate(c, s) /\ ret'.err) => inv' = inv]_vars

\* C14 amended: an Allocate call that finds no available unit of the
\* collectible returns the no-capacity error, and an Allocate call that
\* returns the error reserves nothing: the inventory afterwards is the
\* inventory before the call with the expired reservations released by the
\* in-line sweep.
C14_FailedAllocateOnlySweeps ==
    [][\A c \in ReqCollectibles, s \in ReqStores :
          CallAllocate(c, s) =>
              /\ GetTotalStock(ReleaseExpired(inv, now), c) = 0 => ret'.err
              /\ ret'.err => inv' = ReleaseExpired(inv, now)]_vars

\* An Allocate for a collectible all of whose units are held has just failed.
C14_Witness ==
    /\ ret.op = "Allocate" /\ ret.err
    /\ ret.c \in DOMAIN Collectibles
    /\ GetTotalStock(inv, ret.c) = 0

\* The stock of collectible c after Allocate(c, s) succeeds in inventory i at
\* time t and ReleaseUnit is called at once for the returned unit's
\* collectible and warehouse; -1 when the Allocate or the ReleaseUnit fails.
StockAfterAllocateRelease(i, t, c, s) ==
    LET a == Allocate(i, t, c, s, nextId)
        r == ReleaseUnit(a.inv, c, WarehouseOf[a.unit])
    IN IF a.err \/ r.err THEN -1 ELSE GetTotalStock(r.inv, c)

\* An Allocate(c, s) in the current state would succeed.
CanAllocate(c, s) == ~Allocate(inv, now, c, s, nextId).err

\* C15 as stated: a successful Allocate followed by ReleaseUnit for the
\* returned unit's collectible and warehouse restores the collectible's stock
\* to its value before the Allocate.
C15_AllocateReleaseIdentity ==
    \A c \in DOMAIN Collectibles, s \in ReqStores :
        CanAllocate(c, s) =>
            StockAfterAllocateRelease(inv, now, c, s) = GetTotalStock(inv, c)

\* C15 amended: the ReleaseUnit succeeds and the stock afterwards is the
\* stock before the Allocate plus the units of the collectible whose expired
\* reservations the Allocate's in-line sweep released.
C15_AllocateReleaseSweptStock ==
    \A c \in DOMAIN Collectibles, s \in ReqStores :
        CanAllocate(c, s) =>
            StockAfterAllocateRelease(inv, now, c, s)
                = GetTotalStock(ReleaseExpired(inv, now), c)

\* A ReleaseUnit has just given back the unit an Allocate had reserved: every
\* unit of the collectible is Available again.
C15_Witness ==
    /\ ret.op = "ReleaseUnit" /\ ~ret.err
    /\ nextId > 1
    /\ \A u \in Units : CollectibleOf[u] = ret.c => inv[u].IsAvailable
    /\ \E s \in ReqStores : CanAllocate(ret.c, s)

\* C16: the eligibility check allows cancellation exactly for PendingPayment
\* (refund 0), Paid and Allocated (refund = total) and InTransit (refund =
\* half the total), and refuses it for ReadyForPickup, Completed, Cancelled
\* and Refunded.
C16_EligibilityTable ==
    [][\A p \in CancelProcs :
          CancelCheck(p) =>
              LET status == orders[cancel[p].order].Status
                  total == orders[cancel[p].order].TotalAmount
                  result == cancel'[p].result
              IN /\ result.CanCancel <=>
                       status \in {"PENDING_PAYMENT", "PAID", "ALLOCATED", "IN_TRANSIT"}
                 /\ status = "PENDING_PAYMENT" => result.RefundAmount = 0
                 /\ status \in {"PAID", "ALLOCATED"} => result.RefundAmount = total
                 /\ status = "IN_TRANSIT" => 2 * result.RefundAmount = total
                 /\ status \in {"READY_FOR_PICKUP", "COMPLETED", "CANCELLED", "REFUNDED"}
                       => result.RefundAmount = 0]_vars

\* One request has been granted half the total for an order in transit while
\* another has been refused.
C16_Witness ==
    \E p, q \in CancelProcs :
        /\ cancel[p].pc = "shipped"
        /\ cancel[p].result.RefundAmount > 0
        /\ 2 * cancel[p].result.RefundAmount = orders[cancel[p].order].TotalAmount
        /\ cancel[q].pc = "done" /\ cancel[q].code = 400

\* No warehouse lists the store s.
Unlisted(s) == \A w \in DOMAIN Warehouses : s \notin DOMAIN Warehouses[w]

\* C17: an Allocate for a store that no warehouse lists fails, reserves no
\* unit, and its error differs from the error of every Allocate that fails
\* for lack of capacity at a store that is listed.
C17_UnknownStoreDistinct ==
    [][\A c \in ReqCollectibles :
          CallAllocate(c, UnlistedStore) =>
              /\ Unlisted(UnlistedStore)
              /\ ret'.err
              /\ inv' = ReleaseExpired(inv, now)
              /\ \A c2 \in ReqCollectibles, s2 \in ReqStores :
                    LET r == Allocate(inv', now, c2, s2, nextId')
                    IN r.err => r.msg # ret'.msg]_vars

\* The cart item the checkout request p is about to attempt cannot be loaded
\* or has no unit to allocate once the expired reservations are swept.
ItemCannotBeAllocated(p) ==
    LET it == checkout[p].items[checkout[p].idx]
    IN \/ it.CollectibleID \notin DOMAIN Collectibles
       \/ Candidates(ReleaseExpired(inv, now), it.CollectibleID, it.StoreID) = {}

\* C18: in cart checkout every cart item is attempted, whether or not an
\* earlier one failed: each iteration moves to the next item and appends the
\* item's collectible id to the failed list exactly when the item could not
\* be loaded or allocated, and a 409 response is written only after the last
\* item, with every item either in the failed list or allocated.
C18_EveryItemAttempted ==
    [][\A p \in CheckoutProcs :
          /\ (checkout[p].pc = "items" /\ checkout'[p] # checkout[p]) =>
                /\ checkout'[p].idx = checkout[p].idx + 1
                /\ checkout'[p].failed =
                      IF ItemCannotBeAllocated(p)
                      THEN Append(checkout[p].failed,
                                  checkout[p].items[checkout[p].idx].CollectibleID)
                      ELSE checkout[p].failed
                /\ Len(checkout'[p].orderItems) =
                      Len(checkout[p].orderItems)
                          + (IF ItemCannotBeAllocated(p) THEN 0 ELSE 1)
          /\ (CheckoutReturns(p) /\ checkout'[p].code = 409) =>
                /\ checkout'[p].idx = Len(checkout'[p].items) + 1
                /\ Len(checkout'[p].failed) >= 1
                /\ Len(checkout'[p].failed) + Len(checkout'[p].orderItems)
                      = Len(checkout'[p].items)]_vars

\* A 409 response to a two-item cart whose first item failed and whose second
\* item was allocated all the same.
C18_Witness ==
    \E p \in CheckoutProcs :
        /\ checkout[p].pc = "done" /\ checkout[p].code = 409
        /\ Len(checkout[p].items) = 2
        /\ checkout[p].failed = <<checkout[p].items[1].CollectibleID>>
        /\ Len(checkout[p].orderItems) = 1
        /\ checkout[p].orderItems[1].CollectibleID = checkout[p].items[2].CollectibleID

\* C19: when a cart checkout served on its own returns success, the orders
\* created since the request took its order id are exactly the one order with
\* that id; the order is in PendingPayment, belongs to the user, holds one
\* item per cart line with the unit reserved for the order, carries the
\* payment id of the session created for the order and the sum of the item
\* prices; and the cart is CheckedOut.
C19_SuccessfulCheckout ==
    [][\A p \in CheckoutProcs :
          (CheckoutReturns(p) /\ checkout'[p].code = 200) =>
              LET q == checkout'[p]
              IN /\ {id \in DOMAIN orders' : id >= q.orderID} = {q.orderID}
                 /\ orders'[q.orderID].Status = "PENDING_PAYMENT"
                 /\ orders'[q.orderID].UserID = q.user
                 /\ orders'[q.orderID].Items = q.orderItems
                 /\ Len(orders'[q.orderID].Items) = Len(q.items)
                 /\ \A k \in 1..Len(q.items) :
                       LET it == orders'[q.orderID].Items[k]
                       IN /\ it.CollectibleID = q.items[k].CollectibleID
                          /\ CollectibleOf[it.UnitID] = it.CollectibleID
                          /\ WarehouseOf[it.UnitID] = it.WarehouseID
                          /\ ~inv'[it.UnitID].IsAvailable
                          /\ inv'[it.UnitID].ReservationID = q.orderID
                 /\ orders'[q.orderID].PaymentID = q.orderID
                 /\ orders'[q.orderID].TotalAmount = q.total
                 /\ carts'[q.cart].Status = "CHECKED_OUT"]_vars

\* A checkout of a two-line cart has returned success and its order is stored.
C19_Witness ==
    \E p \in CheckoutProcs :
        /\ checkout[p].pc = "done" /\ checkout[p].code = 200
        /\ Len(checkout[p].items) = 2
        /\ checkout[p].orderID \in DOMAIN orders
        /\ Len(orders[checkout[p].orderID].Items) = 2
        /\ carts[checkout[p].cart].Status = "CHECKED_OUT"

\* The carts of user u that are in status Active.
ActiveCarts(u) == {id \in DOMAIN carts : carts[id].UserID = u /\ carts[id].Status = "ACTIVE"}

\* C20: whatever cart operations and checkouts a user's requests perform,
\* concurrent ones included, the user has at most one cart in status Active.
C20_OneActiveCart == \A u \in Users : Cardinality(ActiveCarts(u)) <= 1

\* C21: no step of a cart operation (GetCart, AddToCart, UpdateCartItem,
\* RemoveFromCart, ClearCart) changes any inventory unit, and a unit leaves
\* Available only in a step of the checkout.
C21_CartsNeverReserve ==
    [][/\ cartop' # cartop => inv' = inv
       /\ (\E u \in Units : inv[u].IsAvailable /\ ~inv'[u].IsAvailable) =>
             \E p \in CheckoutProcs : checkout[p].pc = "items" /\ checkout'[p] # checkout[p]
      ]_vars

\* The cart holds a line the user has added and then updated to a larger
\* quantity, while every unit of the inventory is still Available.
C21_Witness ==
    /\ \A u \in Units : inv[u].IsAvailable
    /\ cartop["e1"].pc = "update"
    /\ \E k \in 1..Len(carts[cartop["e1"].cart].Items) :
          carts[cartop["e1"].cart].Items[k].Quantity = MaxQuantity

\* C22: GetTotalStock(c) returns exactly the number of units of collectible c
\* that are Available when it is called, 0 for a collectible without units,
\* and changes no unit.
C22_StockIsAvailableCount ==
    [][\A c \in ReqCollectibles :
          CallGetTotalStock(c) =>
              /\ ret'.count = Cardinality({u \in Units : CollectibleOf[u] = c
                                                         /\ inv[u].IsAvailable})
              /\ (c \notin DOMAIN Collectibles => ret'.count = 0)
              /\ inv' = inv]_vars

\* A stock query has answered 1 for a collectible two of whose three units
\* are reserved.
C22_Witness ==
    /\ ret.op = "GetTotalStock" /\ ret.count = 1
    /\ Cardinality({u \in Units : CollectibleOf[u] = ret.c}) = 3
    /\ Cardinality({u \in Units : CollectibleOf[u] = ret.c /\ ~inv[u].IsAvailable}) = 2

\* C23: GetETA(c, s) returns the least distance to store s over the units of
\* collectible c that are Available and whose warehouse lists s, and returns
\* an error exactly when there is no such unit; it changes no unit.
C23_ETAIsMinimumDistance ==
    [][\A c \in ReqCollectibles, s \in ReqStores :
          CallGetETA(c, s) =>
              LET cand == Candidates(inv, c, s)
              IN /\ ret'.err <=> cand = {}
                 /\ ~ret'.err =>
                       /\ \E u \in cand : Warehouses[WarehouseOf[u]][s] = ret'.dist
                       /\ \A u \in cand : Warehouses[WarehouseOf[u]][s] >= ret'.dist
                 /\ inv' = inv]_vars

\* An ETA query has answered with the distance of a farther warehouse while
\* the units of the nearest warehouse are reserved.
C23_Witness ==
    /\ ret.op = "GetETA" /\ ~ret.err
    /\ \E u \in Units :
          /\ CollectibleOf[u] = ret.c /\ ~inv[u].IsAvailable
          /\ ret.s \in DOMAIN Warehouses[WarehouseOf[u]]
          /\ Warehouses[WarehouseOf[u]][ret.s] < ret.dist

\* C24: for every size and every duration of at least one day, the quote has
\* a daily rate of twice the base rate and the special-rate flag set when
\* the duration is below 7 days, the base rate and the flag clear when it is
\* 7 days or more, and in both cases a total of daily rate times duration.
C24_SpecialRate ==
    [][\A size \in Sizes, duration \in 1..MaxRentalDays :
          CallCalculateRentalFee(size, duration) =>
              /\ duration < 7 => /\ ret'.dailyRate = 2 * GetDailyRate(size)
                                 /\ ret'.isSpecialRate
              /\ duration >= 7 => /\ ret'.dailyRate = GetDailyRate(size)
                                  /\ ~ret'.isSpecialRate
              /\ ret'.totalFee = ret'.dailyRate * duration]_vars

\* A six-day quote for a medium collectible at the doubled rate.
C24_Witness ==
    /\ ret.op = "CalculateRentalFee" /\ ret.size = "M" /\ ret.duration = 6
    /\ ret.isSpecialRate /\ ret.dailyRate = 10000 /\ ret.totalFee = 60000

\* C25: startup fails whenever some warehouse has no distance entry for some
\* configured store id.
C25_StartupCoverage ==
    [][\A keys \in [StartupWarehouses -> SUBSET DistanceKeys] :
          CallStartup(keys) =>
              ((\E w \in StartupWarehouses : \E s \in ConfiguredStores : s \notin keys[w])
                  => ret'.failed)]_vars

\* The unit ids in lexicographic order, and the position of each id in it.
UnitIdsSorted == <<"U1", "U2", "U3", "U4">>
UnitRank == [u \in Units |-> CHOOSE k \in 1..Len(UnitIdsSorted) : UnitIdsSorted[k] = u]

\* C26: when several Available units of the collectible are at the same
\* least distance from the store, a successful Allocate returns the one with
\* the lexicographically smallest unit id.
C26_TieBreakByUnitId ==
    [][\A c \in ReqCollectibles, s \in ReqStores :
          (CallAllocate(c, s) /\ ~ret'.err) =>
              \A u \in Candidates(ReleaseExpired(inv, now), c, s) :
                  Warehouses[WarehouseOf[u]][s] = ret'.dist =>
                      UnitRank[ret'.unit] <= UnitRank[u]]_vars

\* The units a step takes from reserved to Available.
Freed == {u \in Units : ~inv[u].IsAvailable /\ inv'[u].IsAvailable}

\* C27: a ReleaseUnit call made for one reservation (the compensation loop of
\* a checkout for its order id, the release loop of a cancellation for the
\* cancelled order) frees no unit that is reserved under another
\* reservation id.
C27_ReleaseOwnUnitOnly ==
    [][/\ \A p \in CheckoutProcs :
             (checkout[p].pc = "release" /\ checkout'[p] # checkout[p]) =>
                 \A u \in Freed : inv[u].ReservationID = checkout[p].orderID
       /\ \A p \in CancelProcs :
             (cancel[p].pc = "release" /\ cancel'[p] # cancel[p]) =>
                 \A u \in Freed : inv[u].ReservationID = cancel[p].order]_vars

\* C28: a cancellation does not overwrite a status update it has not seen:
\* when it writes Cancelled, the status it replaces is one that may legally
\* become Cancelled and for which the eligibility decision the cancellation
\* acts on (cancellable, refund amount, reason) is still the right one, so
\* that the outcome is that of the updates applied one after the other.
C28_NoLostStatusUpdate ==
    [][\A p \in CancelProcs :
          (cancel[p].pc = "cancelled" /\ cancel'[p] # cancel[p]) =>
              LET o == cancel[p].order
              IN /\ <<orders[o].Status, orders'[o].Status>> \in AllowedTransitions
                 /\ cancel[p].result =
                       CheckCancellationEligibility(orders[o].Status,
                                                    orders[o].TotalAmount)]_vars

\* C29: a cancellation goes into its release loop exactly when the order is
\* Paid or Allocated when the loop condition is evaluated (not when it is
\* PendingPayment or InTransit); the loop calls ReleaseUnit once for every
\* order item and goes on to the next item whether or not the call failed;
\* after the loop the order is written Cancelled.
C29_ReleaseWhenPaidOrAllocated ==
    [][\A p \in CancelProcs :
          LET q == cancel[p]
          IN /\ (q.pc = "shipped" /\ cancel'[p] # q) =>
                   /\ cancel'[p].pc \in {"release", "cancelled"}
                   /\ cancel'[p].pc = "release" <=>
                         orders[q.order].Status \in {"PAID", "ALLOCATED"}
                   /\ inv' = inv
             /\ (q.pc = "release" /\ cancel'[p] # q) =>
                   LET it == orders[q.order].Items[q.idx]
                   IN /\ inv' = ReleaseUnit(inv, it.CollectibleID, it.WarehouseID).inv
                      /\ cancel'[p].idx = q.idx + 1
                      /\ cancel'[p].pc = IF q.idx = Len(orders[q.order].Items)
                                         THEN "cancelled" ELSE "release"
             /\ (q.pc = "cancelled" /\ cancel'[p] # q) =>
                   orders'[q.order].Status = "CANCELLED"]_vars

\* Two cancellations of one order have both gone through the release loop of
\* its single item, so that one of the two ReleaseUnit calls found no
\* reserved unit, and both have answered success.
C29_Witness ==
    \E p, q \in CancelProcs :
        /\ p # q
        /\ cancel[p].pc = "done" /\ cancel[p].code = 200 /\ cancel[p].idx = 2
        /\ cancel[q].pc = "done" /\ cancel[q].code = 200 /\ cancel[q].idx = 2
        /\ cancel[p].order = cancel[q].order
        /\ orders[cancel[p].order].Status \in {"CANCELLED", "REFUNDED"}
        /\ \A u \in Units : inv[u].IsAvailable

\* C30: a session.expired event for a pending rental makes Available the unit
\* reserved under the rental, releases no other unit and marks the rental
\* failed; an event that finds no pending rental for its session (the same
\* event delivered again) changes no unit and no rental.
C30_SessionExpiry ==
    [][\A pid \in 1..MaxIds :
          HandleSessionExpiry(pid) =>
              IF ret'.rental = NoId
              THEN inv' = inv /\ rentals' = rentals
              ELSE /\ \A u \in Units :
                        (~inv[u].IsAvailable /\ inv[u].ReservationID = ret'.rental)
                            => inv'[u].IsAvailable
                   /\ \A u \in Freed : inv[u].ReservationID = ret'.rental
                   /\ rentals'[ret'.rental].PaymentStatus = "failed"]_vars

\* C31: a payment.paid event or the success redirect makes the pending rental
\* of its session completed, and only a pending rental ever becomes
\* completed: a rental that was marked failed stays failed.
C31_PaidOnlyPending ==
    [][/\ \A id \in DOMAIN rentals :
             (rentals[id].PaymentStatus # "completed"
                 /\ rentals'[id].PaymentStatus = "completed")
                => rentals[id].PaymentStatus = "pending"
       /\ \A pid \in 1..MaxIds :
             (HandlePaymentSuccess(pid) \/ PaymentSuccess(pid))
                => \E id \in DOMAIN rentals :
                       /\ rentals[id].PaymentID = pid
                       /\ rentals'[id].PaymentStatus = "completed"]_vars

\* The units a sweep at the current time has to release: reserved, with
\* reservedAt earlier than now minus the timeout.
ExpiredUnits ==
    {u \in Units : /\ ~inv[u].IsAvailable
                   /\ inv[u].ReservedAt # NoTime
                   /\ inv[u].ReservedAt < now - ReservationTimeout}

\* C32: a sweep releases exactly the units reserved with reservedAt earlier
\* than now minus the timeout (Available, reservedAt and reservationId
\* cleared) and leaves every other unit as it was; without an expired
\* reservation it changes nothing, and a second sweep right after the first
\* changes nothing more.
C32_SweepExactAndIdempotent ==
    [][/\ \A u \in Units :
             ReleaseExpired(inv, now)[u] = IF u \in ExpiredUnits THEN FreeUnit ELSE inv[u]
       /\ ExpiredUnits = {} => ReleaseExpired(inv, now) = inv
       /\ ReleaseExpired(ReleaseExpired(inv, now), now) = ReleaseExpired(inv, now)
       /\ CleanupExpiredReservations =>
             /\ ExpiredUnits # {}
             /\ \A u \in Units :
                   inv'[u] = IF u \in ExpiredUnits THEN FreeUnit ELSE inv[u]
             /\ ReleaseExpired(inv', now') = inv']_vars

\* A sweep is about to release one reservation and to keep another.
C32_Witness ==
    /\ ExpiredUnits # {}
    /\ \E v \in Units \ ExpiredUnits : ~inv[v].IsAvailable
    /\ \A u \in ExpiredUnits : ReleaseExpired(inv, now)[u].IsAvailable
    /\ ENABLED CleanupExpiredReservations

\* C33: in every reachable state every unit that is not Available has both
\* reservedAt and reservationId set, and every Available unit has neither.
C33_ReservationMetadata ==
    \A u \in Units :
        IF inv[u].IsAvailable
        THEN inv[u].ReservedAt = NoTime /\ inv[u].ReservationID = NoId
        ELSE inv[u].ReservedAt # NoTime /\ inv[u].ReservationID # NoId

\* The cart a request holds as the active cart of its user right after its
\* lookup step, NoId when the lookup found none.
Obtained(q) == IF "cart" \in DOMAIN q THEN q.cart ELSE NoId

\* The user's active-cart pointer designates a cart that is CheckedOut: the
\* repository between cart.Status = CartCheckedOut and UpdateCart.
HalfCheckedOut(u) ==
    u \in DOMAIN cartsByUser /\ carts[cartsByUser[u]].Status = "CHECKED_OUT"

\* q has just looked up the active cart of its user (p was idle before).
LooksUp(before, after) ==
    before.pc = "idle" /\ after.pc # "idle" /\ "user" \in DOMAIN after

\* C34: a request that looks up the active cart of a user never obtains a cart
\* whose status is CheckedOut, and no lookup sees the repository between the
\* status change to CheckedOut and the clearing of the user's active-cart
\* pointer: to every request the two are one step.
C34_CheckedOutAtomic ==
    [][/\ \A p \in DOMAIN cartop :
             LooksUp(cartop[p], cartop'[p]) =>
                /\ Obtained(cartop'[p]) # NoId
                       => carts[Obtained(cartop'[p])].Status = "ACTIVE"
                /\ ~HalfCheckedOut(cartop'[p].user)
       /\ \A p \in DOMAIN checkout :
             LooksUp(checkout[p], checkout'[p]) =>
                /\ Obtained(checkout'[p]) # NoId
                       => carts[Obtained(checkout'[p])].Status = "ACTIVE"
                /\ ~HalfCheckedOut(checkout'[p].user)]_vars

AtGateway(p) == checkout[p].pc = "pay"

ReservedUnder(rid) ==
    {u \in Units : ~inv[u].IsAvailable /\ inv[u].ReservationID = rid}

\* Checkout p takes its last step and answers 200.
Succeeds(p) ==
    checkout[p].pc = "update" /\ checkout'[p].pc = "done" /\ checkout'[p].code = 200

\* C38: when a cart checkout succeeds, the number of units reserved for it
\* is the number of cart lines, whatever the quantities of the lines, and the
\* order has one item per cart line, the k-th item for the k-th line.
C38_OneUnitPerLine ==
    [][\A p \in CheckoutProcs :
          Succeeds(p) =>
             LET q == checkout[p]
                 items == orders[q.orderID].Items
             IN /\ Cardinality(ReservedUnder(q.orderID)) = Len(q.items)
                /\ Len(items) = Len(q.items)
                /\ \A k \in 1..Len(items) :
                      /\ items[k].CollectibleID = q.items[k].CollectibleID
                      /\ items[k].UnitID \in ReservedUnder(q.orderID)
                /\ \A j, k \in 1..Len(items) :
                      j # k => items[j].UnitID # items[k].UnitID]_vars

\* A checkout of a cart with a line of quantity two has succeeded with one
\* order item.
C38_Witness ==
    \E p \in CheckoutProcs :
        /\ checkout[p].pc = "done" /\ checkout[p].code = 200
        /\ \E k \in 1..Len(checkout[p].items) : checkout[p].items[k].Quantity > 1
        /\ Len(orders[checkout[p].orderID].Items) = Len(checkout[p].items)
        /\ Cardinality(ReservedUnder(checkout[p].orderID)) = Len(checkout[p].items)

\* C39: whenever GetETA(collectible, store) returns a distance d, an Allocate
\* for the same collectible and store made at the same moment on the same
\* inventory succeeds and returns the distance d.
C39_ETAMatchesAllocate ==
    \A c \in ReqCollectibles, s \in ReqStores :
        LET e == GetETA(inv, c, s)
            a == Allocate(inv, now, c, s, nextId)
        IN ~e.err => (~a.err /\ a.dist = e.dist)

\* The units the items of order o reference.
OrderUnits(o) == {orders[o].Items[k].UnitID : k \in 1..Len(orders[o].Items)}

\* C40: a unit that a step of a cart checkout reserves carries the order id
\* of that checkout as its reservationId, and when a checkout succeeds the
\* units its order's items reference are exactly the units reserved under
\* the order id.
C40_OrderOwnsItsUnits ==
    [][\A p \in CheckoutProcs :
          /\ (checkout[p].pc = "items" /\ checkout'[p] # checkout[p]) =>
                \A u \in Units :
                    (inv[u].IsAvailable /\ ~inv'[u].IsAvailable)
                        => inv'[u].ReservationID = checkout[p].orderID
          /\ Succeeds(p) =>
                OrderUnits(checkout[p].orderID) = ReservedUnder(checkout[p].orderID)]_vars

=============================================================================
